---- MODULE Spec2Model ----
(***************************************************************************)
(* Model of AutonomousWebAssistant (src/main.py): the agent control loop   *)
(* execute_task with its Planner requests, its recovery protocol and the   *)
(* Task Summary.                                                           *)
(*                                                                         *)
(* The Planner (Gemini) and the Browser Driver (Playwright) are the        *)
(* environment: every Planner reply and every driver outcome is a          *)
(* nondeterministic choice.  A Python exception that leaves execute_task   *)
(* is the program position "raised", with the exception type in exc.       *)
(*                                                                         *)
(* self.action_history is kept as its length and its last record: the      *)
(* only parts of the list that the control flow of execute_task reads      *)
(* (line 148) or that one iteration writes (lines 173-178).                *)
(*                                                                         *)
(* The parts of the program are specifications over the same state:        *)
(*   Spec, FairSpec   one call of execute_task                             *)
(*   SessionSpec      run_assistant: one task after another                *)
(*   ExecSpec         one call of execute_action, down to the driver calls *)
(*   FindSpec         find_element_by_locator, called twice                *)
(*   CrawlSpec, CrawlFairSpec   the crawls of a session (max_depth 2)      *)
(*   ExploreSpec      one call of explore_website with any max_depth       *)
(*   TaskOrExecSpec   one call of execute_task, or one of execute_action   *)
(***************************************************************************)
EXTENDS Integers, Sequences, FiniteSets, TLC

VARIABLES
    pc,                      \* position in execute_task
    current_step,            \* local current_step
    retry_attempts,          \* local retry_attempts
    planner_reply,           \* form of the Planner's reply to this step's next-action request
    next_action,             \* local next_action (the proposal of this step)
    status,                  \* status.get("status") of this step's execute_action
    recovery_reply,          \* form of the Planner's reply to this step's recovery request
    recovery_action,         \* local recovery_action
    recovery_status,         \* recovery_status.get("status")
    captcha_solving_active,  \* self.captcha_solving_active
    history_len,             \* len(self.action_history)
    history_last,            \* self.action_history[-1], NoRecord when the list is empty
    initial_navigation,      \* whether line 149 ran for this task
    summary,                 \* "none" until generate_task_summary has returned
    exc,                     \* type of the exception that left execute_task, "none" otherwise
    raised_at,               \* position at which that exception was raised
    plannerCalls,            \* next-action requests sent in this task
    recoveryCalls,           \* recovery requests sent in this step
    dispatched               \* kinds handed to execute_action in this step, in order

VARIABLES
    history_errors,          \* records of self.action_history whose 'status' entry is 'ERROR'
    history_successes,       \* records the summary counts as successful (lines 962-966)
    error_steps,             \* error_steps of the last Task Summary (line 967)
    successful_steps,        \* successful_steps of the last Task Summary (lines 962-966)
    first_driver_call        \* first Browser Driver call of this task, "none" before it

VARIABLES
    explored_urls,           \* self.explored_urls
    crawl_stack,             \* the frames of explore_website, the innermost last
    memory,                  \* the entries add_memory has stored for the crawler
    visits,                  \* the successful navigations of explore_website, in order
    crawls,                  \* top-level calls of explore_website so far
    crawl_max_depth,         \* argument max_depth of the running crawl
    last_return              \* the call of explore_website that returned last, and where

VARIABLES
    ex_pc,                   \* position in execute_action and the primitive it runs
    ex_action_data,          \* parameter action_data of execute_action
    debug,                   \* self.debug
    find_args,               \* arguments of the running find_element_by_locator
    elapsed,                 \* time.time() - start_time in find_element_by_locator
    element_locator,         \* what find_element_by_locator returned
    driver_calls,            \* the Browser Driver calls of this execute_action, in order
    result,                  \* what execute_action returned, or the exception that left it
    data,                    \* the "data" entry of what extract_content returned
    page,                    \* what the page holds for the running find_element_by_locator
    probes,                  \* what the iterations of the running find_element_by_locator met
    previous,                \* the find_element_by_locator call before the running one
    dialog_calls             \* what the last handle_dialogs met, selector by selector

crawlVars == <<explored_urls, crawl_stack, memory, visits, crawls, crawl_max_depth,
              last_return>>

\* The page under the resolver and what is remembered of its calls.
pageVars == <<page, probes, previous>>

execVars == <<ex_pc, ex_action_data, debug, find_args, elapsed, element_locator,
              driver_calls, result, data, pageVars, dialog_calls>>

\* The variables of the crawler and of the executor, which execute_task's own
\* steps leave alone.
unitVars == <<crawlVars, execVars>>

summaryVars == <<history_errors, history_successes, error_steps, successful_steps>>

loopVars == <<pc, current_step, retry_attempts, planner_reply, next_action, status,
              recovery_reply, recovery_action, recovery_status, captcha_solving_active,
              history_len, history_last, initial_navigation, summary, exc, raised_at,
              plannerCalls, recoveryCalls, dispatched,
              history_errors, history_successes, error_steps, successful_steps,
              first_driver_call>>

vars == <<loopVars, crawlVars, execVars>>

-----------------------------------------------------------------------------
(* Program constants of execute_task *)

max_steps == 30

max_retry_attempts == 3

-----------------------------------------------------------------------------
(* Action proposals *)

\* The kinds the prompt of get_next_action_from_gemini offers.
ActionKinds ==
    {"CLICK", "TYPE", "NAVIGATE", "SCROLL", "WAIT", "EXTRACT", "TASK_COMPLETE",
     "MANUAL_CAPTCHA", "EXPLORE_WEBSITE", "ABORT", "RETRY"}

\* The kinds the prompt of get_recovery_action offers.
RecoveryKinds == {"CLICK", "TYPE", "NAVIGATE", "SCROLL", "WAIT", "ABORT", "RETRY"}

\* Values of the "action" entry of a decoded JSON object: a string (one of the
\* kinds, a lower-case spelling, a kind nobody knows), a value that is not a
\* string (NONSTRING stands for a number, a list, null), or no entry at all.
MISSING == "<no action key>"

NONSTRING == "<non-string>"

ActionStrings == ActionKinds \cup {"retry", "HOVER"}

ActionValues == ActionStrings \cup {MISSING, NONSTRING}

\* str.upper() on the strings of the model.
Upper(s) == IF s = "retry" THEN "RETRY" ELSE s

\* details: the entries of the "details" mapping that the loop's records show.
NoDetails == {}

Seconds(n) == {<<"seconds", n>>}

PlannerSeconds == {1, 5}

Proposal(a, d) == [action |-> a, details |-> d]

NoProposal == Proposal("<unassigned>", NoDetails)

\* What the Planner can answer to one request.
\*   UNDECODABLE  text that json.loads rejects
\*   TRANSPORT    generate_content or response.text raises
\*   NONOBJECT    JSON that decodes to something that is not an object
\*   OBJECT       a JSON object, with whatever "action" it has
PlannerFailures == {"UNDECODABLE", "TRANSPORT"}

Reply(f, a, d) == [form |-> f, action |-> a, details |-> d]

PlannerReplies ==
    {Reply(f, MISSING, NoDetails) : f \in {"UNDECODABLE", "TRANSPORT", "NONOBJECT"}}
    \cup {Reply("OBJECT", a, NoDetails) : a \in ActionValues}
    \cup {Reply("OBJECT", "WAIT", Seconds(n)) : n \in PlannerSeconds}

-----------------------------------------------------------------------------
(* get_next_action_from_gemini and get_recovery_action: from reply to proposal *)

\* get_next_action_from_gemini with one handler for both failures.
NextActionOfOneHandler(reply) ==
    CASE reply.form \in {"UNDECODABLE", "TRANSPORT", "NONOBJECT"} ->
              Proposal("WAIT", Seconds(10))
      [] OTHER -> Proposal(reply.action, reply.details)

\* get_next_action_from_gemini, lines 327-362.  json.JSONDecodeError gives the
\* WAIT of 5 seconds; every other exception of the try body gives the WAIT of
\* 10 seconds, the AttributeError of action_data.get on a non-object (line 341)
\* included.  A decoded object is returned as it is.
NextActionOf(reply) ==
    CASE reply.form = "UNDECODABLE" -> Proposal("WAIT", Seconds(5))
      [] reply.form = "TRANSPORT"   -> Proposal("WAIT", Seconds(10))
      [] reply.form = "NONOBJECT"   -> Proposal("WAIT", Seconds(10))
      [] OTHER                      -> Proposal(reply.action, reply.details)

\* get_recovery_action with the failure handlers of get_next_action_from_gemini.
RecoveryActionOfWaiting(reply) ==
    CASE reply.form = "UNDECODABLE" -> Proposal("WAIT", Seconds(5))
      [] reply.form = "TRANSPORT"   -> Proposal("WAIT", Seconds(10))
      [] reply.form = "NONOBJECT"   -> Proposal("WAIT", Seconds(10))
      [] OTHER                      -> Proposal(reply.action, reply.details)

\* get_recovery_action, lines 425-447: every failure gives ABORT.
RecoveryActionOf(reply) ==
    CASE reply.form = "UNDECODABLE" -> Proposal("ABORT", NoDetails)
      [] reply.form = "TRANSPORT"   -> Proposal("ABORT", NoDetails)
      [] reply.form = "NONOBJECT"   -> Proposal("ABORT", NoDetails)
      [] OTHER                      -> Proposal(reply.action, reply.details)

-----------------------------------------------------------------------------
(* execute_action *)

\* The kinds execute_action hands to a primitive that drives the browser.  Each
\* primitive catches every fault and returns SUCCESS or ERROR.
DriverKinds == {"CLICK", "TYPE", "NAVIGATE", "SCROLL", "WAIT", "EXTRACT"}

\* The kinds execute_action acknowledges without a driver call (lines 486-490).
\* An executor whose acknowledged kinds (lines 486-490) leave out ABORT.
AcknowledgedKindsWithoutAbort == {"EXPLORE_WEBSITE", "TASK_COMPLETE", "MANUAL_CAPTCHA", "RETRY"}

\* An executor whose acknowledged kinds (lines 486-490) leave out RETRY.
AcknowledgedKindsWithoutRetry == {"EXPLORE_WEBSITE", "TASK_COMPLETE", "ABORT", "MANUAL_CAPTCHA"}

AcknowledgedKinds == {"EXPLORE_WEBSITE", "TASK_COMPLETE", "ABORT", "MANUAL_CAPTCHA", "RETRY"}

\* execute_action, lines 449-496: the outcomes of one call.  Line 451 is
\* outside the try: .upper() on a value that is not a string raises.  A missing
\* "action" reads as "" (the default of .get), an unknown kind.
ExecuteOutcomes(action_data) ==
    IF action_data.action = NONSTRING THEN {"RAISE"}
    ELSE IF action_data.action = MISSING THEN {"ERROR"}
    ELSE IF Upper(action_data.action) \in DriverKinds THEN {"SUCCESS", "ERROR"}
    ELSE IF Upper(action_data.action) \in AcknowledgedKinds THEN {"SUCCESS"}
    ELSE {"ERROR"}

-----------------------------------------------------------------------------
(* execute_action and its primitives, one Browser Driver call at a time *)

element_search_timeout == 10

\* At most this many elements match one locator expression.
MaxMatches == 2

\* A "details" mapping is the set of its <<key, value>> entries; a "details"
\* that is not a JSON object (null, a string, a list) is NonObjectDetails.
NonObjectDetails == {<<"<not an object>", "">>}

\* dict.get(key, default).
Get(details, key, default) ==
    IF \E e \in details : e[1] = key
    THEN (CHOOSE e \in details : e[1] = key)[2]
    ELSE default

ExecDetails ==
    { NoDetails,
      NonObjectDetails,
      {<<"locator", "#go">>},
      {<<"text", "Go">>},
      {<<"locator", "#go">>, <<"text", "Go">>},
      {<<"locator", "#go">>, <<"text", "">>},
      {<<"url", "example.org">>},
      {<<"url", "http://example.org">>},
      {<<"url", "https://example.org">>},
      {<<"url", "HTTP://example.org">>},
      {<<"url", "">>},
      {<<"type", "html">>} }

\* The proposals execute_action is called with.
ExecProposals == {Proposal(a, d) : a \in ActionValues, d \in ExecDetails}

\* ActionResult: the "status" and the "message" of the returned mapping.  The
\* message of a caught exception is str(e), FaultMessage here.
ActionResult(st, msg) == [status |-> st, message |-> msg]

NoResult == ActionResult("<none>", "")

FaultMessage == "<str(e)>"

\* A Playwright Locator for one element: how it was found (by the locator
\* expression, by the k-th text strategy, by the k-th input selector of
\* type_text) and which of the matches it is.  None is Python's None.
Element(by, k, nth) == [by |-> by, strategy |-> k, nth |-> nth]

None == Element("None", 0, 0)

\* Arguments of find_element_by_locator, and who called it.
FindArgs(locator_str, text, index, caller) ==
    [locator_str |-> locator_str, text |-> text, index |-> index, caller |-> caller]

\* The caller of a find_element_by_locator that is called on its own.
Nobody == "<nobody>"

NoArgs == FindArgs("", "", 0, Nobody)

\* One Browser Driver call that is not a probe of find_element_by_locator.
DriverCall(call, on, fault) == [call |-> call, on |-> on, fault |-> fault]

\* The text strategies of lines 576-586, in the order they are tried.
TextStrategies ==
    << "text={text}", "text={text}>>nth={index}", "text=regexp:^{text}$",
       "text=*{text}", "text=regexp:{text}", "text=iregex:{text}",
       "text='{text}'", "text=\"{text}\"", "text=localized:\"{text}\"" >>

\* What a page holds for one call of find_element_by_locator: how many
\* elements the locator expression of the call matches, and how many each
\* text strategy matches for the text of the call.
PageOf(locator, text) == [locator |-> locator, text |-> text]

\* No element shows the text.
NoText == [k \in 1..Len(TextStrategies) |-> 0]

\* Elements contain the text without being equal to it: only the strategies
\* 'contains' (the fourth to the sixth) match.
ContainedText == [k \in 1..Len(TextStrategies) |-> IF k \in 4..6 THEN MaxMatches ELSE 0]

\* One element shows exactly the text: every strategy matches it.
ExactText == [k \in 1..Len(TextStrategies) |-> 1]

Pages == {PageOf(n, t) : n \in 0..MaxMatches, t \in {NoText, ContainedText, ExactText}}

EmptyPage == PageOf(0, NoText)

\* What the iterations of one call met so far: the outcome of the last one,
\* whether one raised, whether one had a match on its page, whether the page
\* changed between two of them.
Probes(last, faulted, matched, changed) ==
    [last |-> last, faulted |-> faulted, matched |-> matched, changed |-> changed]

NoProbes == Probes("none", FALSE, FALSE, FALSE)

\* An earlier call of find_element_by_locator: what it returned, and whether
\* it ran on an unchanged page with no probe raising.
Previous(called, element, clean) ==
    [called |-> called, element |-> element, clean |-> clean]

NoPrevious == Previous(FALSE, None, FALSE)

\* A text: the first chars characters of a source text that is source
\* characters long, followed by the marker "..." when marker is set.
Text(source, chars, marker) == [source |-> source, chars |-> chars, marker |-> marker]

NoData == [text |-> Text(0, 0, FALSE), given |-> FALSE]

\* The "data" of a successful text extraction (title and url left out).
TextData(text) == [text |-> text, given |-> TRUE]

\* execute_action is not running.
ExecIdle ==
    /\ ex_pc = "idle"
    /\ ex_action_data = NoProposal
    /\ debug = FALSE
    /\ find_args = NoArgs
    /\ elapsed = 0
    /\ element_locator = None
    /\ driver_calls = <<>>
    /\ result = NoResult
    /\ data = NoData
    /\ page = EmptyPage
    /\ probes = NoProbes
    /\ previous = NoPrevious
    /\ dialog_calls = <<>>

\* The selectors of type_text's fallback (lines 685-687), in order.
InputLocators == <<"input", "textarea", "[contenteditable='true']", "[role='textbox']">>

\* The index-th match whether there is one or not.
PickMatchUnchecked(count, index) == index

\* Lines 560-563 and 591-594: the index-th match when there is one, the first
\* match otherwise.
PickMatch(count, index) == IF 0 <= index /\ index < count THEN index ELSE 0

\* execute_action returns r.
Return(r) ==
    /\ result' = r
    /\ ex_pc' = "done"

\* What a driver call acts on when it is not a resolved element.
Page == Element("page", 0, 0)

Focused == Element("focused", 0, 0)

\* type_text, lines 670-681: the text is checked before the try; then the
\* locator, when there is one, goes to find_element_by_locator without a
\* fallback text.
TypeTextEntry(locator_str, text) ==
    IF text = ""
    THEN Return(ActionResult("ERROR", "No text provided to type")) /\ UNCHANGED find_args
    ELSE IF locator_str # ""
    THEN /\ find_args' = FindArgs(locator_str, "", 0, "type_text")
         /\ ex_pc' = "find"
         /\ UNCHANGED result
    ELSE /\ ex_pc' = "type_inputs"
         /\ UNCHANGED <<find_args, result>>

\* navigate_to_url, lines 725-726.
NavigateEntry(url) ==
    IF url = ""
    THEN Return(ActionResult("ERROR", "No URL provided"))
    ELSE ex_pc' = "goto" /\ UNCHANGED result

\* execute_action, lines 451-493, up to the first Browser Driver call.  Line
\* 451 is outside the try; details.get on a "details" that is not an object
\* raises inside it (lines 458-482) and is caught at line 495.
Enter(a) ==
    LET action_type == IF a.action = MISSING THEN "" ELSE Upper(a.action)
        details == a.details
    IN  IF a.action = NONSTRING
        THEN /\ result' = ActionResult("<raised>", "AttributeError")
             /\ ex_pc' = "raised"
             /\ UNCHANGED find_args
        ELSE IF action_type \in DriverKinds /\ details = NonObjectDetails
        THEN Return(ActionResult("ERROR", FaultMessage)) /\ UNCHANGED find_args
        ELSE CASE action_type = "CLICK" ->
                    /\ find_args' = FindArgs(Get(details, "locator", ""),
                                             Get(details, "text", ""), 0, "click_element")
                    /\ ex_pc' = "find"
                    /\ UNCHANGED result
               [] action_type = "TYPE" ->
                    TypeTextEntry(Get(details, "locator", ""), Get(details, "text", ""))
               [] action_type = "NAVIGATE" ->
                    NavigateEntry(Get(details, "url", "")) /\ UNCHANGED find_args
               [] action_type \in {"SCROLL", "WAIT", "EXTRACT"} ->
                    /\ ex_pc' = "primitive"
                    /\ UNCHANGED <<find_args, result>>
               [] action_type = "EXPLORE_WEBSITE" ->
                    /\ Return(ActionResult("SUCCESS", "Website exploration action acknowledged."))
                    /\ UNCHANGED find_args
               [] action_type \in {"TASK_COMPLETE", "ABORT", "MANUAL_CAPTCHA", "RETRY"} ->
                    /\ Return(ActionResult("SUCCESS", "Action acknowledged"))
                    /\ UNCHANGED find_args
               [] OTHER ->
                    /\ Return(ActionResult("ERROR", "Unknown action type"))
                    /\ UNCHANGED find_args

\* execute_action is called (lines 208 and 218) with some proposal.
ExecuteActionCall ==
    /\ ex_pc = "idle"
    /\ \E a \in ExecProposals, d \in BOOLEAN :
         /\ ex_action_data' = a
         /\ debug' = d
         /\ Enter(a)
    /\ page' \in Pages
    /\ UNCHANGED <<elapsed, element_locator, driver_calls, loopVars, crawlVars>>
    /\ UNCHANGED <<data, dialog_calls, probes, previous>>

\* click_element without the test of line 609: whatever the resolver returned
\* is clicked.
FindReturnsUnchecked(e) ==
    /\ element_locator' = e
    /\ ex_pc' = IF find_args.caller = "click_element" THEN "click"
              ELSE IF e # None THEN "fill" ELSE "type_inputs"
    /\ UNCHANGED result

\* find_element_by_locator returns e to its caller: click_element (lines
\* 608-666) clicks or reports the element as not found, type_text (lines
\* 680-709) fills or goes on to its input selectors.
FindReturns(e) ==
    /\ element_locator' = e
    /\ IF find_args.caller = Nobody
       THEN ex_pc' = "returned" /\ UNCHANGED result
       ELSE IF find_args.caller = "click_element"
       THEN IF e # None
            THEN ex_pc' = "click" /\ UNCHANGED result
            ELSE Return(ActionResult("ERROR", "Element not found for click"))
       ELSE /\ ex_pc' = IF e # None THEN "fill" ELSE "type_inputs"
            /\ UNCHANGED result

\* Lines 556-596 with the text strategies tried only when the call has no
\* locator expression.
ResolveTextOnlyWithoutLocator(args, p) ==
    IF args.locator_str # ""
    THEN IF p.locator > 0
         THEN Element("locator", 0, PickMatch(p.locator, args.index))
         ELSE None
    ELSE IF args.text # "" /\ \E k \in 1..Len(TextStrategies) : p.text[k] > 0
    THEN LET k == CHOOSE i \in 1..Len(TextStrategies) :
                     p.text[i] > 0 /\ \A j \in 1..(i - 1) : p.text[j] = 0
         IN  Element("text", k, PickMatch(p.text[k], args.index))
    ELSE None

\* Lines 556-596: what one iteration in which no probe raises finds on page
\* p.  The locator expression, when there is one and it matches ('if
\* locator_str' and 'if count > 0'); otherwise ('if text', not 'elif') the
\* first text strategy that matches, when a text is given; otherwise nothing.
Resolve(args, p) ==
    IF args.locator_str # "" /\ p.locator > 0
    THEN Element("locator", 0, PickMatch(p.locator, args.index))
    ELSE IF args.text # "" /\ \E k \in 1..Len(TextStrategies) : p.text[k] > 0
    THEN LET k == CHOOSE i \in 1..Len(TextStrategies) :
                     p.text[i] > 0 /\ \A j \in 1..(i - 1) : p.text[j] = 0
         IN  Element("text", k, PickMatch(p.text[k], args.index))
    ELSE None

\* The while test passing for the first iteration only.
SearchOverAfterOne(t) == t >= element_search_timeout \/ probes.last # "none"

\* Line 554, the while test failing: the search time is over.
SearchOver(t) == t >= element_search_timeout

\* find_element_by_locator, lines 553-602: the while test and one iteration.
\* An iteration takes dt units of the clock.  A probe of it may raise (count,
\* or evaluate in debug mode): the except of line 598 catches that and the
\* iteration has found nothing.  Otherwise it returns what Resolve gives on the
\* page as it is, or finds nothing.  After an iteration that found nothing the
\* page may be another one.
FindElementPoll ==
    /\ ex_pc = "find"
    /\ IF SearchOver(elapsed)
       THEN FindReturns(None) /\ UNCHANGED <<elapsed, page, probes>>
       ELSE \E fault \in BOOLEAN :
              LET found == IF fault THEN None ELSE Resolve(find_args, page)
                  met(changed) == Probes(IF fault THEN "fault" ELSE found.by,
                                         probes.faulted \/ fault,
                                         probes.matched \/ Resolve(find_args, page) # None,
                                         probes.changed \/ changed)
              IN  IF found # None
                  THEN /\ FindReturns(found)
                       /\ probes' = met(FALSE)
                       /\ UNCHANGED <<elapsed, page>>
                  ELSE \E dt \in {0, 1}, next_page \in Pages :
                         /\ elapsed' = elapsed + dt
                         /\ page' = next_page
                         /\ probes' = met(next_page # page)
                         /\ UNCHANGED <<ex_pc, result, element_locator>>
    /\ UNCHANGED <<ex_action_data, debug, find_args, driver_calls, loopVars, crawlVars>>
    /\ UNCHANGED <<data, dialog_calls, previous>>

\* click_element without its try: a fault of the click or of the calls after
\* it leaves execute_action as well.
ClickElementUncaught ==
    /\ ex_pc = "click"
    /\ \/ /\ driver_calls' = Append(driver_calls, DriverCall("click", element_locator, TRUE))
          /\ result' = ActionResult("<raised>", FaultMessage)
          /\ ex_pc' = "raised"
       \/ /\ driver_calls' = driver_calls \o
                << DriverCall("click", element_locator, FALSE),
                   DriverCall("wait_for_load_state", Page, FALSE) >>
          /\ Return(ActionResult("SUCCESS", "Clicked on element"))
    /\ UNCHANGED <<ex_action_data, debug, find_args, elapsed, element_locator,
                   loopVars, crawlVars>>
    /\ UNCHANGED <<data, dialog_calls, pageVars>>

\* click_element, lines 646-663: element_locator.click(), then
\* wait_for_load_state, the debug screenshot and page.title(); the except of
\* line 667 catches whichever raises.
ClickElement ==
    /\ ex_pc = "click"
    /\ \/ /\ driver_calls' = Append(driver_calls, DriverCall("click", element_locator, TRUE))
          /\ Return(ActionResult("ERROR", FaultMessage))
       \/ /\ driver_calls' = driver_calls \o
                << DriverCall("click", element_locator, FALSE),
                   DriverCall("wait_for_load_state", Page, TRUE) >>
          /\ Return(ActionResult("ERROR", FaultMessage))
       \/ /\ driver_calls' = driver_calls \o
                << DriverCall("click", element_locator, FALSE),
                   DriverCall("wait_for_load_state", Page, FALSE) >>
          /\ Return(ActionResult("SUCCESS", "Clicked on element"))
    /\ UNCHANGED <<ex_action_data, debug, find_args, elapsed, element_locator,
                   loopVars, crawlVars>>
    /\ UNCHANGED <<data, dialog_calls, pageVars>>

\* type_text without the input selectors of lines 683-692: an unresolved
\* locator leads straight to the keyboard.
TypeInputsSkipped ==
    /\ ex_pc = "type_inputs"
    /\ ex_pc' = "keyboard"
    /\ UNCHANGED <<ex_action_data, debug, find_args, elapsed, element_locator,
                   driver_calls, result, loopVars, crawlVars>>
    /\ UNCHANGED <<data, dialog_calls, pageVars>>

\* type_text, lines 683-692: the first of the input selectors that matches
\* gives the element (its first match); count() may raise.
TypeInputs ==
    /\ ex_pc = "type_inputs"
    /\ \/ \E k \in 1..Len(InputLocators) :
            /\ element_locator' = Element("input", k, 0)
            /\ driver_calls' = Append(driver_calls, DriverCall("count", Page, FALSE))
            /\ ex_pc' = "fill"
            /\ UNCHANGED result
       \/ /\ driver_calls' = Append(driver_calls, DriverCall("count", Page, FALSE))
          /\ ex_pc' = "keyboard"
          /\ UNCHANGED <<element_locator, result>>
       \/ /\ driver_calls' = Append(driver_calls, DriverCall("count", Page, TRUE))
          /\ Return(ActionResult("ERROR", FaultMessage))
          /\ UNCHANGED element_locator
    /\ UNCHANGED <<ex_action_data, debug, find_args, elapsed, loopVars, crawlVars>>
    /\ UNCHANGED <<data, dialog_calls, pageVars>>

\* type_text, lines 694-715: element_locator.fill(text).
Fill ==
    /\ ex_pc = "fill"
    /\ \/ /\ driver_calls' = Append(driver_calls, DriverCall("fill", element_locator, FALSE))
          /\ Return(ActionResult("SUCCESS", "Typed into input field"))
       \/ /\ driver_calls' = Append(driver_calls, DriverCall("fill", element_locator, TRUE))
          /\ Return(ActionResult("ERROR", FaultMessage))
    /\ UNCHANGED <<ex_action_data, debug, find_args, elapsed, element_locator,
                   loopVars, crawlVars>>
    /\ UNCHANGED <<data, dialog_calls, pageVars>>

\* type_text, lines 716-719: page.keyboard.type(text).
KeyboardType ==
    /\ ex_pc = "keyboard"
    /\ \/ /\ driver_calls' = Append(driver_calls, DriverCall("keyboard.type", Focused, FALSE))
          /\ Return(ActionResult("SUCCESS", "Typed into active element (fallback)"))
       \/ /\ driver_calls' = Append(driver_calls, DriverCall("keyboard.type", Focused, TRUE))
          /\ Return(ActionResult("ERROR", FaultMessage))
    /\ UNCHANGED <<ex_action_data, debug, find_args, elapsed, element_locator,
                   loopVars, crawlVars>>
    /\ UNCHANGED <<data, dialog_calls, pageVars>>

\* str.startswith on the URLs of the model (it tells upper case from lower).
StartsWith(url, prefix) ==
    <<url, prefix>> \in { <<"http://example.org", "http://">>,
                          <<"https://example.org", "https://">> }

\* 'https://' + url on the URLs of the model.
Https(url) ==
    CASE url = "example.org"         -> "https://example.org"
      [] url = "http://example.org"  -> "https://http://example.org"
      [] url = "https://example.org" -> "https://https://example.org"
      [] url = "HTTP://example.org"  -> "https://HTTP://example.org"
      [] OTHER                       -> "https://"

\* Every URL given the prefix.
GotoUrlAlwaysPrefixed(url) == Https(url)

\* Lines 729-730: the URL that page.goto is called with.
GotoUrl(url) ==
    IF ~(StartsWith(url, "http://") \/ StartsWith(url, "https://"))
    THEN Https(url)
    ELSE url

\* The page at url, as what a driver call acts on.
Address(url) == Element(url, 0, 0)

\* Lines 737-738: the screenshot of debug mode.
DebugScreenshot(fault) ==
    IF debug THEN <<DriverCall("screenshot", Page, fault)>> ELSE <<>>

\* handle_dialogs, lines 926-958.  The model keeps the first MaxSelectors of
\* the dismiss_selectors of lines 928-946, in their order.
MaxSelectors == 3

\* What the page holds for one selector: no match (count() is 0), a match
\* that is not visible, a visible match whose click returns, a visible match
\* whose click raises, or a fault of locator(), count() or is_visible().
SelectorStates == {"absent", "hidden", "visible", "click_fault", "probe_fault"}

\* The pages handle_dialogs can run on.
Banners == [1..MaxSelectors -> SelectorStates]

\* One iteration of the loop of line 948: the selector and what it met.
DialogProbe(selector, met) == [selector |-> selector, met |-> met]

\* The loop of line 948 without the break of line 955.
RECURSIVE HandleDialogsWithoutBreak(_, _)
HandleDialogsWithoutBreak(banners, selector) ==
    IF selector > MaxSelectors THEN <<>>
    ELSE <<DialogProbe(selector, banners[selector])>>
            \o HandleDialogsWithoutBreak(banners, selector + 1)

\* Lines 948-958, from the given selector on: the iterations in order.  A
\* click that returns is followed by the break of line 955; every fault is
\* caught at line 956 and the loop continues with the next selector.
RECURSIVE HandleDialogs(_, _)
HandleDialogs(banners, selector) ==
    IF selector > MaxSelectors THEN <<>>
    ELSE IF banners[selector] = "visible"
    THEN <<DialogProbe(selector, "visible")>>
    ELSE <<DialogProbe(selector, banners[selector])>>
            \o HandleDialogs(banners, selector + 1)

\* navigate_to_url, lines 728-747: page.goto; when it has returned,
\* handle_dialogs (which catches the faults of its own driver calls), the
\* screenshot of debug mode and page.title().  The except of line 746 catches
\* whichever raises.
Goto ==
    /\ ex_pc = "goto"
    /\ LET url == Address(GotoUrl(Get(ex_action_data.details, "url", "")))
           navigated == << DriverCall("goto", url, FALSE),
                           DriverCall("handle_dialogs", Page, FALSE) >>
       IN  \/ /\ driver_calls' = Append(driver_calls, DriverCall("goto", url, TRUE))
              /\ Return(ActionResult("ERROR", FaultMessage))
              /\ dialog_calls' = <<>>
           \/ /\ \E banners \in Banners : dialog_calls' = HandleDialogs(banners, 1)
              /\ \/ /\ debug
                    /\ driver_calls' = driver_calls \o navigated \o DebugScreenshot(TRUE)
                    /\ Return(ActionResult("ERROR", FaultMessage))
                 \/ /\ driver_calls' = driver_calls \o navigated \o DebugScreenshot(FALSE)
                                          \o <<DriverCall("title", Page, TRUE)>>
                    /\ Return(ActionResult("ERROR", FaultMessage))
                 \/ /\ driver_calls' = driver_calls \o navigated \o DebugScreenshot(FALSE)
                                          \o <<DriverCall("title", Page, FALSE)>>
                    /\ Return(ActionResult("SUCCESS", "Navigated"))
    /\ UNCHANGED <<ex_action_data, debug, find_args, elapsed, element_locator,
                   loopVars, crawlVars>>
    /\ UNCHANGED <<data, pageVars>>

\* Line 822: the number of characters of the source that a text extraction keeps.
TextLimit == 2000

\* A text longer than TextLimit is this much longer at most.
MaxOver == 4

\* The marker "..." of line 822.
Ellipsis == <<".", ".", ".">>

\* len(text).
Length(text) == text.chars + (IF text.marker THEN Len(Ellipsis) ELSE 0)

\* text[:n], of a text without marker.
Slice(text, n) == [text EXCEPT !.chars = IF text.chars < n THEN text.chars ELSE n]

\* text + "...".
WithEllipsis(text) == [text EXCEPT !.marker = TRUE]

\* What text_content() can give: an empty text, and texts around TextLimit.
SourceTexts == {Text(n, n, FALSE) : n \in {0} \cup (TextLimit - 1)..(TextLimit + MaxOver)}

\* The marker put after a long text that is not cut.
MainTextUncut(text_content) ==
    IF Length(text_content) > TextLimit THEN WithEllipsis(text_content) ELSE text_content

\* Line 822: text_content[:2000] + "..." if len(text_content) > 2000 else
\* text_content.
MainText(text_content) ==
    IF Length(text_content) > TextLimit
    THEN WithEllipsis(Slice(text_content, TextLimit))
    ELSE text_content

\* Lines 795-911: the extract types extract_content has a branch for;
\* "element_text" only with a locator.
KnownExtract(extract_type, locator_str) ==
    \/ extract_type \in {"text", "links", "search_results"}
    \/ extract_type = "element_text" /\ locator_str # ""

\* scroll_page (lines 749-778), wait_for (780-788) and extract_content
\* (790-924), each as one call: it succeeds, a driver call raises, or
\* extract_content refuses (an extract type it does not know, lines 910-911,
\* before any driver call; an element it does not find, lines 817 and 919).
\* A successful extraction of type "text" returns main_text of line 822 in
\* its "data".
RunPrimitive ==
    /\ ex_pc = "primitive"
    /\ LET kind == Upper(ex_action_data.action)
           extract_type == Get(ex_action_data.details, "type", "text")
           locator_str == Get(ex_action_data.details, "locator", "")
       IN  IF kind = "EXTRACT" /\ ~KnownExtract(extract_type, locator_str)
           THEN /\ Return(ActionResult("ERROR", "Unknown extract type"))
                /\ UNCHANGED <<driver_calls, data>>
           ELSE \/ /\ driver_calls' = Append(driver_calls, DriverCall(kind, Page, FALSE))
                   /\ Return(ActionResult("SUCCESS", "Done"))
                   /\ IF kind = "EXTRACT" /\ extract_type = "text"
                      THEN \E text_content \in SourceTexts :
                             data' = TextData(MainText(text_content))
                      ELSE UNCHANGED data
                \/ /\ driver_calls' = Append(driver_calls, DriverCall(kind, Page, TRUE))
                   /\ Return(ActionResult("ERROR", FaultMessage))
                   /\ UNCHANGED data
                \/ /\ kind = "EXTRACT"
                   /\ extract_type \in {"text", "element_text"}
                   /\ locator_str # ""
                   /\ driver_calls' = Append(driver_calls, DriverCall(kind, Page, FALSE))
                   /\ Return(ActionResult("ERROR", "Could not find element"))
                   /\ UNCHANGED data
    /\ UNCHANGED <<ex_action_data, debug, find_args, elapsed, element_locator,
                   loopVars, crawlVars>>
    /\ UNCHANGED <<dialog_calls, pageVars>>

\* The values of the parameter index: in range, one past the last match and
\* beyond, and a negative one.
Indexes == -1..(MaxMatches + 1)

\* find_element_by_locator called on its own, with whatever arguments, on
\* whatever page.
FindCall ==
    /\ ex_pc = "idle"
    /\ \E locator_str \in {"", "#go"}, text \in {"", "Go"}, index \in Indexes :
         find_args' = FindArgs(locator_str, text, index, Nobody)
    /\ debug' \in BOOLEAN
    /\ page' \in Pages
    /\ ex_pc' = "find"
    /\ UNCHANGED <<ex_action_data, elapsed, element_locator, driver_calls, result, data,
                   dialog_calls, probes, previous, loopVars, crawlVars>>

\* The call has returned and find_element_by_locator is called once more,
\* with the same arguments, on the page as the first call left it.
FindAgain ==
    /\ ex_pc = "returned"
    /\ ~previous.called
    /\ previous' = Previous(TRUE, element_locator, ~probes.faulted /\ ~probes.changed)
    /\ probes' = NoProbes
    /\ elapsed' = 0
    /\ ex_pc' = "find"
    /\ UNCHANGED <<ex_action_data, debug, find_args, element_locator, driver_calls,
                   result, data, dialog_calls, page, loopVars, crawlVars>>

FindNext ==
    \/ FindCall
    \/ FindElementPoll
    \/ FindAgain

ExecNext ==
    \/ ExecuteActionCall
    \/ FindElementPoll
    \/ ClickElement
    \/ TypeInputs
    \/ Fill
    \/ KeyboardType
    \/ Goto
    \/ RunPrimitive

-----------------------------------------------------------------------------
(* explore_website *)

exploration_depth == 2

\* The session runs at most this many EXPLORE_WEBSITE steps.
MaxCrawls == 2

\* explore_website on its own is called with a max_depth up to this.
MaxDepth == 3

\* A URL, as urlparse splits it.
Url(scheme, netloc, path) == [scheme |-> scheme, netloc |-> netloc, path |-> path]

SiteRoot == Url("https", "a.example", "/")

SitePage == Url("https", "a.example", "/p")

OtherSite == Url("https", "b.example", "/")

MailLink == Url("mailto", "", "x@a.example")

\* The pages the browser can be on when an EXPLORE_WEBSITE step starts.
PageUrls == {SiteRoot, SitePage, OtherSite}

\* The href attribute of an anchor: an absolute URL, a path relative to the
\* site root, or no attribute at all (get_attribute gives None).
Absolute(url) == [form |-> "absolute", url |-> url, path |-> ""]

Relative(path) == [form |-> "relative", url |-> Url("", "", ""), path |-> path]

NoHref == [form |-> "None", url |-> Url("", "", ""), path |-> ""]

\* The anchors a page of the model can have.
Hrefs ==
    { Absolute(SiteRoot), Relative("/q"), Absolute(OtherSite), Absolute(MailLink), NoHref }

\* urllib.parse.urljoin(base, href) on the hrefs of the model: an absolute
\* URL replaces the base, a rooted path replaces the path of the base, and no
\* href gives the base.
urljoin(base, href) ==
    CASE href.form = "absolute" -> href.url
      [] href.form = "relative" -> Url(base.scheme, base.netloc, href.path)
      [] OTHER                  -> base

\* Lines 534-538 without the comparison of the netloc.
UrlsToExploreAnyHost(url, hrefs) ==
    { absolute_url \in {urljoin(url, href) : href \in hrefs} :
        /\ absolute_url.scheme \in {"http", "https"}
        /\ absolute_url \notin explored_urls }

\* Lines 534-538: the links of the page at url that explore_website recurses
\* into.  hrefs are the anchors whose attribute was read; an anchor whose read
\* raises is skipped by the handler of lines 540-542.
UrlsToExplore(url, hrefs) ==
    { absolute_url \in {urljoin(url, href) : href \in hrefs} :
        /\ absolute_url.scheme \in {"http", "https"}
        /\ absolute_url.netloc = url.netloc
        /\ absolute_url \notin explored_urls }

\* A call of explore_website: its arguments, its position, the URLs that the
\* anchors of its page gave (line 532), and its local urls_to_explore (what is
\* left of it once the last loop runs).
Frame(url, current_depth) ==
    [url |-> url, current_depth |-> current_depth, at |-> "enter", links |-> {},
     urls_to_explore |-> {}]

Top == crawl_stack[Len(crawl_stack)]

\* The innermost call moves on, or returns.
Continue(frame) == crawl_stack' = [crawl_stack EXCEPT ![Len(crawl_stack)] = frame]

\* A return that unwinds every call of the crawl.
ReturnFromCrawl(line) ==
    /\ crawl_stack' = <<>>
    /\ last_return' = [url |-> Top.url, current_depth |-> Top.current_depth, line |-> line]

\* The innermost call returns, at the given line of explore_website.
ReturnFromCall(line) ==
    /\ crawl_stack' = SubSeq(crawl_stack, 1, Len(crawl_stack) - 1)
    /\ last_return' = [url |-> Top.url, current_depth |-> Top.current_depth, line |-> line]

\* Line 500 without the test of the depth.
ReturnsAtOnceVisitedOnly(url, max_depth, current_depth) == url \in explored_urls

\* Line 500 without the test of the visited set.
ReturnsAtOnceDepthOnly(url, max_depth, current_depth) == current_depth >= max_depth

\* Line 500.
ReturnsAtOnce(url, max_depth, current_depth) ==
    current_depth >= max_depth \/ url \in explored_urls

\* The loop of line 544 never done with an element.
RestNotConsumed(urls, next_url) == urls

\* Line 544: the for loop is done with next_url.
Rest(urls, next_url) == urls \ {next_url}

\* The site of SiteRoot over plain http.
PlainRoot == Url("http", "a.example", "/")

\* The URLs explore_website is called with when it is called on its own.
ExploreUrls == PageUrls \cup {PlainRoot}

\* explore_website called on its own, once, with whatever URL and max_depth.
StartExplore ==
    /\ crawl_stack = <<>>
    /\ crawls = 0
    /\ \E url \in ExploreUrls : crawl_stack' = <<Frame(url, 0)>>
    /\ \E d \in 1..MaxDepth : crawl_max_depth' = d
    /\ crawls' = 1
    /\ UNCHANGED <<explored_urls, memory, visits, last_return, loopVars, execVars>>

\* Line 192: the EXPLORE_WEBSITE step calls explore_website on the URL of the
\* current page with max_depth = exploration_depth.
StartCrawl ==
    /\ crawl_stack = <<>>
    /\ crawls < MaxCrawls
    /\ \E url \in PageUrls : crawl_stack' = <<Frame(url, 0)>>
    /\ crawls' = crawls + 1
    /\ crawl_max_depth' = exploration_depth
    /\ UNCHANGED <<explored_urls, memory, visits, last_return, loopVars, execVars>>

\* Lines 500-501.
CrawlEnter ==
    /\ crawl_stack # <<>>
    /\ Top.at = "enter"
    /\ IF ReturnsAtOnce(Top.url, crawl_max_depth, Top.current_depth)
       THEN ReturnFromCall(501)
       ELSE Continue([Top EXCEPT !.at = "navigate"]) /\ UNCHANGED last_return
    /\ UNCHANGED <<explored_urls, memory, visits, crawls, crawl_max_depth, loopVars, execVars>>

\* Lines 505-510: navigate_to_url; on ERROR the call returns, on SUCCESS the
\* URL is marked as explored.
CrawlNavigate ==
    /\ crawl_stack # <<>>
    /\ Top.at = "navigate"
    /\ \/ /\ ReturnFromCall(508)
          /\ UNCHANGED <<explored_urls, visits>>
       \/ /\ explored_urls' = explored_urls \cup {Top.url}
          /\ visits' = Append(visits, [url |-> Top.url, current_depth |-> Top.current_depth])
          /\ Continue([Top EXCEPT !.at = "screenshot"])
          /\ UNCHANGED last_return
    /\ UNCHANGED <<memory, crawls, crawl_max_depth, loopVars, execVars>>

\* Line 512: take_screenshot; a fault is caught at line 547 and ends the call.
CrawlScreenshot ==
    /\ crawl_stack # <<>>
    /\ Top.at = "screenshot"
    /\ \/ Continue([Top EXCEPT !.at = "extract"]) /\ UNCHANGED last_return
       \/ ReturnFromCall(548)
    /\ UNCHANGED <<explored_urls, memory, visits, crawls, crawl_max_depth, loopVars, execVars>>

\* Lines 513-520: extract_content (it returns ERROR rather than raise), and
\* on SUCCESS add_memory with the netloc as key.
CrawlExtract ==
    /\ crawl_stack # <<>>
    /\ Top.at = "extract"
    /\ \/ memory' = memory \cup {[key |-> Top.url.netloc, page |-> Top.url,
                                   category |-> "website"]}
       \/ UNCHANGED memory
    /\ Continue([Top EXCEPT !.at = "links"])
    /\ UNCHANGED <<explored_urls, visits, crawls, last_return, crawl_max_depth, loopVars, execVars>>

\* Lines 523-542: the anchors of the page are read; count() may raise, which
\* ends the call (line 547).
CrawlLinks ==
    /\ crawl_stack # <<>>
    /\ Top.at = "links"
    /\ \/ ReturnFromCall(548)
       \/ \E hrefs \in SUBSET Hrefs :
            /\ Continue([Top EXCEPT !.at = "recurse",
                                    !.links = {urljoin(Top.url, href) : href \in hrefs},
                                    !.urls_to_explore = UrlsToExplore(Top.url, hrefs)])
            /\ UNCHANGED last_return
    /\ UNCHANGED <<explored_urls, memory, visits, crawls, crawl_max_depth, loopVars, execVars>>

\* Lines 544-545: the next URL of the set, in whatever order the set gives
\* them, is explored one level deeper; after the last one the call returns.
CrawlRecurse ==
    /\ crawl_stack # <<>>
    /\ Top.at = "recurse"
    /\ IF Top.urls_to_explore = {}
       THEN ReturnFromCall(545)
       ELSE /\ \E next_url \in Top.urls_to_explore :
                 crawl_stack' =
                    Append([crawl_stack EXCEPT ![Len(crawl_stack)].urls_to_explore =
                                                  Rest(Top.urls_to_explore, next_url)],
                           Frame(next_url, Top.current_depth + 1))
            /\ UNCHANGED last_return
    /\ UNCHANGED <<explored_urls, memory, visits, crawls, crawl_max_depth, loopVars, execVars>>

\* The steps of a call of explore_website.
CrawlStep ==
    \/ CrawlEnter
    \/ CrawlNavigate
    \/ CrawlScreenshot
    \/ CrawlExtract
    \/ CrawlLinks
    \/ CrawlRecurse

CrawlNext == StartCrawl \/ CrawlStep

ExploreNext == StartExplore \/ CrawlStep

-----------------------------------------------------------------------------
(* execute_task *)

NoRecord == [step |-> 0, action |-> "<none>", details |-> NoDetails]

\* The record appended at lines 173-178 (the screenshot file name is left out).
StepRecord(step, proposal) ==
    [step |-> step, action |-> proposal.action, details |-> proposal.details]

\* The test of line 148 without its second disjunct.
StartsAtDefaultPageOnlyEmpty == history_len = 0

\* Line 148.
StartsAtDefaultPage == history_len = 0 \/ history_last.action = "TASK_COMPLETE"

\* The while test off by one.
LoopConditionInclusive == current_step <= max_steps

\* Line 157.
LoopCondition == current_step < max_steps

\* The retry test off by one.
RetryExhaustedEarly(r) == r >= max_retry_attempts

\* Line 198.
RetryExhausted(r) == r > max_retry_attempts

\* action.get('status') on a record of the history: no record has that entry
\* (lines 173-178 write step, action, details and screenshot, and nothing
\* writes to a record later), so .get gives None.
RecordStatus(record) ==
    IF "status" \in DOMAIN record THEN record.status ELSE "<None>"

\* Line 963: the kinds the summary leaves out of its successful steps.
NotCountedKinds == {"TASK_COMPLETE", "ABORT", "MANUAL_CAPTCHA", "RETRY", "EXPLORE_WEBSITE"}

\* Lines 962-966.
CountsAsSuccessful(record) ==
    record.action \notin NotCountedKinds /\ RecordStatus(record) = "SUCCESS"

\* Line 967.
CountsAsError(record) == RecordStatus(record) = "ERROR"

\* No crawl has run: the state __init__ leaves (lines 48 and 51).
CrawlIdle ==
    /\ explored_urls = {}
    /\ crawl_stack = <<>>
    /\ memory = {}
    /\ visits = <<>>
    /\ crawls = 0
    /\ crawl_max_depth = 0
    /\ last_return = [url |-> Url("", "", ""), current_depth |-> 0, line |-> 0]

Init ==
    /\ pc = "idle"
    /\ current_step = 0
    /\ retry_attempts = 0
    /\ planner_reply = "none"
    /\ next_action = NoProposal
    /\ status = "none"
    /\ recovery_reply = "none"
    /\ recovery_action = NoProposal
    /\ recovery_status = "none"
    /\ captcha_solving_active = FALSE
    /\ history_len = 0
    /\ history_last = NoRecord
    /\ initial_navigation = FALSE
    /\ summary = "none"
    /\ exc = "none"
    /\ raised_at = "none"
    /\ plannerCalls = 0
    /\ recoveryCalls = 0
    /\ dispatched = <<>>
    /\ history_errors = 0
    /\ history_successes = 0
    /\ error_steps = 0
    /\ successful_steps = 0
    /\ first_driver_call = "none"
    /\ CrawlIdle
    /\ ExecIdle

\* An exception of type e leaves execute_task from the current position.
Raise(e) ==
    /\ pc' = "raised"
    /\ exc' = e
    /\ raised_at' = pc
    /\ UNCHANGED <<current_step, retry_attempts, planner_reply, next_action, status,
                   recovery_reply, recovery_action, recovery_status,
                   captcha_solving_active, history_len, history_last,
                   initial_navigation, summary, plannerCalls, recoveryCalls, dispatched>>

\* Lines 141-155.  navigate_to_url catches every fault, and its result is not read.
ExecuteTask ==
    /\ pc = "idle"
    /\ first_driver_call' = IF StartsAtDefaultPage THEN "page.goto" ELSE "none"
    /\ UNCHANGED <<summaryVars, unitVars>>
    /\ initial_navigation' = StartsAtDefaultPage
    /\ current_step' = 0
    /\ retry_attempts' = 0
    /\ pc' = "loop"
    /\ UNCHANGED <<planner_reply, next_action, status, recovery_reply, recovery_action,
                   recovery_status, captcha_solving_active, history_len, history_last,
                   summary, exc, raised_at, plannerCalls, recoveryCalls, dispatched>>

\* Lines 157-158: the while test and, when it passes, the start of a step.  The
\* locals of the previous iteration are dead here (each is assigned again before
\* it is read), so the step starts with them unassigned.
LoopTest ==
    /\ pc = "loop"
    /\ UNCHANGED <<summaryVars, first_driver_call, unitVars>>
    /\ IF LoopCondition
       THEN /\ current_step' = current_step + 1
            /\ pc' = "screenshot"
            /\ planner_reply' = "none"
            /\ next_action' = NoProposal
            /\ status' = "none"
            /\ recovery_reply' = "none"
            /\ recovery_action' = NoProposal
            /\ recovery_status' = "none"
            /\ recoveryCalls' = 0
            /\ dispatched' = <<>>
       ELSE /\ pc' = "summary"
            /\ UNCHANGED <<current_step, planner_reply, next_action, status,
                           recovery_reply, recovery_action, recovery_status,
                           recoveryCalls, dispatched>>
    /\ UNCHANGED <<retry_attempts, captcha_solving_active, history_len, history_last,
                   initial_navigation, summary, exc, raised_at, plannerCalls>>

\* Line 161: take_screenshot has no try around page.screenshot().
TakeScreenshot ==
    /\ pc = "screenshot"
    /\ first_driver_call' = IF first_driver_call = "none" THEN "page.screenshot"
                            ELSE first_driver_call
    /\ UNCHANGED <<summaryVars, unitVars>>
    /\ \/ /\ pc' = "planner"
          /\ UNCHANGED <<current_step, retry_attempts, planner_reply, next_action,
                         status, recovery_reply, recovery_action, recovery_status,
                         captcha_solving_active, history_len, history_last,
                         initial_navigation, summary, exc, raised_at, plannerCalls,
                         recoveryCalls, dispatched>>
       \/ Raise("DriverError")

\* Line 163, get_next_action_from_gemini.  The prompt is built before the try
\* (lines 261-325) and reads page.title(); then one request is sent.
GetNextAction ==
    /\ pc = "planner"
    /\ UNCHANGED <<summaryVars, first_driver_call, unitVars>>
    /\ \/ Raise("DriverError")
       \/ \E reply \in PlannerReplies :
            /\ planner_reply' = reply.form
            /\ next_action' = NextActionOf(reply)
            /\ plannerCalls' = plannerCalls + 1
            /\ pc' = "record"
            /\ UNCHANGED <<current_step, retry_attempts, status, recovery_reply,
                           recovery_action, recovery_status, captcha_solving_active,
                           history_len, history_last, initial_navigation, summary,
                           exc, raised_at, recoveryCalls, dispatched>>

\* Lines 165-178: next_action["action"] is read first (line 168), then the
\* record is appended.
RecordStep ==
    /\ pc = "record"
    /\ UNCHANGED <<error_steps, successful_steps, first_driver_call, unitVars>>
    /\ IF next_action.action = MISSING
       THEN Raise("KeyError") /\ UNCHANGED <<history_errors, history_successes>>
       ELSE /\ history_len' = history_len + 1
            /\ history_last' = StepRecord(current_step, next_action)
            /\ history_errors' = history_errors +
                  (IF CountsAsError(StepRecord(current_step, next_action)) THEN 1 ELSE 0)
            /\ history_successes' = history_successes +
                  (IF CountsAsSuccessful(StepRecord(current_step, next_action)) THEN 1 ELSE 0)
            /\ pc' = "dispatch"
            /\ UNCHANGED <<current_step, retry_attempts, planner_reply, next_action,
                           status, recovery_reply, recovery_action, recovery_status,
                           captcha_solving_active, initial_navigation, summary, exc,
                           raised_at, plannerCalls, recoveryCalls, dispatched>>

\* Lines 180-203: the transition on the proposal's kind.
Dispatch ==
    /\ pc = "dispatch"
    /\ UNCHANGED <<summaryVars, first_driver_call, unitVars>>
    /\ CASE next_action.action = "TASK_COMPLETE" ->
              /\ pc' = "summary"
              /\ UNCHANGED <<retry_attempts, captcha_solving_active>>
         [] next_action.action = "MANUAL_CAPTCHA" ->
              /\ captcha_solving_active' = TRUE
              /\ pc' = "captcha"
              /\ UNCHANGED retry_attempts
         [] next_action.action = "EXPLORE_WEBSITE" ->
              /\ pc' = "explore"
              /\ UNCHANGED <<retry_attempts, captcha_solving_active>>
         [] next_action.action = "RETRY" ->
              /\ retry_attempts' = retry_attempts + 1
              /\ pc' = IF RetryExhausted(retry_attempts + 1) THEN "summary" ELSE "loop"
              /\ UNCHANGED captcha_solving_active
         [] OTHER ->
              /\ retry_attempts' = 0
              /\ pc' = "execute"
              /\ UNCHANGED captcha_solving_active
    /\ UNCHANGED <<current_step, planner_reply, next_action, status, recovery_reply,
                   recovery_action, recovery_status, history_len, history_last,
                   initial_navigation, summary, exc, raised_at, plannerCalls,
                   recoveryCalls, dispatched>>

\* The captcha step given back to the step budget when the loop resumes.
CaptchaSolvedRefund ==
    /\ pc = "captcha"
    /\ captcha_solving_active' = FALSE
    /\ current_step' = current_step - 1
    /\ pc' = "loop"
    /\ UNCHANGED <<retry_attempts, planner_reply, next_action, status,
                   recovery_reply, recovery_action, recovery_status, history_len,
                   history_last, initial_navigation, summary, exc, raised_at,
                   plannerCalls, recoveryCalls, dispatched>>
    /\ UNCHANGED <<summaryVars, first_driver_call, unitVars>>

\* Lines 186-189: input() returns, the human has solved the captcha.
CaptchaSolved ==
    /\ pc = "captcha"
    /\ UNCHANGED <<summaryVars, first_driver_call, unitVars>>
    /\ captcha_solving_active' = FALSE
    /\ pc' = "loop"
    /\ UNCHANGED <<current_step, retry_attempts, planner_reply, next_action, status,
                   recovery_reply, recovery_action, recovery_status, history_len,
                   history_last, initial_navigation, summary, exc, raised_at,
                   plannerCalls, recoveryCalls, dispatched>>

\* An EXPLORE_WEBSITE step that also clears the retry count.
ExploreWebsiteResets ==
    /\ pc = "explore"
    /\ UNCHANGED <<summaryVars, first_driver_call, unitVars>>
    /\ pc' = "loop"
    /\ retry_attempts' = 0
    /\ UNCHANGED <<current_step, planner_reply, next_action, status,
                   recovery_reply, recovery_action, recovery_status,
                   captcha_solving_active, history_len, history_last,
                   initial_navigation, summary, exc, raised_at, plannerCalls,
                   recoveryCalls, dispatched>>

\* Lines 192-194: explore_website returns (it catches every fault of the crawl).
ExploreWebsite ==
    /\ pc = "explore"
    /\ UNCHANGED <<summaryVars, first_driver_call, unitVars>>
    /\ pc' = "loop"
    /\ UNCHANGED <<current_step, retry_attempts, planner_reply, next_action, status,
                   recovery_reply, recovery_action, recovery_status,
                   captcha_solving_active, history_len, history_last,
                   initial_navigation, summary, exc, raised_at, plannerCalls,
                   recoveryCalls, dispatched>>

\* Lines 205-208 and 225: the step's action is executed; dispatched records the
\* calls of execute_action that got as far as its dispatch.
ExecuteAction ==
    /\ pc = "execute"
    /\ UNCHANGED <<summaryVars, first_driver_call, unitVars>>
    /\ \E outcome \in ExecuteOutcomes(next_action) :
         IF outcome = "RAISE"
         THEN Raise("AttributeError")
         ELSE /\ status' = outcome
              /\ dispatched' = Append(dispatched, next_action.action)
              /\ pc' = IF outcome = "ERROR" THEN "recovery_screenshot" ELSE "loop"
              /\ UNCHANGED <<current_step, retry_attempts, planner_reply, next_action,
                             recovery_reply, recovery_action, recovery_status,
                             captcha_solving_active, history_len, history_last,
                             initial_navigation, summary, exc, raised_at,
                             plannerCalls, recoveryCalls>>

\* Line 210.
RecoveryScreenshot ==
    /\ pc = "recovery_screenshot"
    /\ UNCHANGED <<summaryVars, first_driver_call, unitVars>>
    /\ \/ /\ pc' = "recovery_plan"
          /\ UNCHANGED <<current_step, retry_attempts, planner_reply, next_action,
                         status, recovery_reply, recovery_action, recovery_status,
                         captcha_solving_active, history_len, history_last,
                         initial_navigation, summary, exc, raised_at, plannerCalls,
                         recoveryCalls, dispatched>>
       \/ Raise("DriverError")

\* Line 211, get_recovery_action: one request (its prompt reads page.url only).
GetRecoveryAction ==
    /\ pc = "recovery_plan"
    /\ UNCHANGED <<summaryVars, first_driver_call, unitVars>>
    /\ \E reply \in PlannerReplies :
         /\ recovery_reply' = reply.form
         /\ recovery_action' = RecoveryActionOf(reply)
         /\ recoveryCalls' = recoveryCalls + 1
    /\ pc' = "recovery_check"
    /\ UNCHANGED <<current_step, retry_attempts, planner_reply, next_action, status,
                   recovery_status, captcha_solving_active, history_len, history_last,
                   initial_navigation, summary, exc, raised_at, plannerCalls, dispatched>>

\* Lines 213-215: recovery_action["action"] is read.
RecoveryCheck ==
    /\ pc = "recovery_check"
    /\ UNCHANGED <<summaryVars, first_driver_call, unitVars>>
    /\ IF recovery_action.action = MISSING
       THEN Raise("KeyError")
       ELSE /\ pc' = IF recovery_action.action = "ABORT" THEN "summary"
                     ELSE "recovery_execute"
            /\ UNCHANGED <<current_step, retry_attempts, planner_reply, next_action,
                           status, recovery_reply, recovery_action, recovery_status,
                           captcha_solving_active, history_len, history_last,
                           initial_navigation, summary, exc, raised_at, plannerCalls,
                           recoveryCalls, dispatched>>

\* Lines 217-225: the recovery proposal is executed.
ExecuteRecovery ==
    /\ pc = "recovery_execute"
    /\ UNCHANGED <<summaryVars, first_driver_call, unitVars>>
    /\ \E outcome \in ExecuteOutcomes(recovery_action) :
         IF outcome = "RAISE"
         THEN Raise("AttributeError")
         ELSE /\ recovery_status' = outcome
              /\ dispatched' = Append(dispatched, recovery_action.action)
              /\ pc' = IF outcome = "ERROR" THEN "summary" ELSE "loop"
              /\ UNCHANGED <<current_step, retry_attempts, planner_reply, next_action,
                             status, recovery_reply, recovery_action,
                             captcha_solving_active, history_len, history_last,
                             initial_navigation, summary, exc, raised_at,
                             plannerCalls, recoveryCalls>>

\* Lines 227-242, generate_task_summary and the return.  The final screenshot
\* (line 971) and page.title() (line 979) are outside every try; the closing
\* extract_content cannot raise.
GenerateTaskSummary ==
    /\ pc = "summary"
    /\ UNCHANGED <<history_errors, history_successes, first_driver_call, unitVars>>
    /\ \/ /\ summary' = "produced"
          /\ successful_steps' = history_successes
          /\ error_steps' = history_errors
          /\ pc' = "returned"
          /\ UNCHANGED <<current_step, retry_attempts, planner_reply, next_action,
                         status, recovery_reply, recovery_action, recovery_status,
                         captcha_solving_active, history_len, history_last,
                         initial_navigation, exc, raised_at, plannerCalls,
                         recoveryCalls, dispatched>>
       \/ Raise("DriverError") /\ UNCHANGED <<error_steps, successful_steps>>

Next ==
    \/ ExecuteTask
    \/ LoopTest
    \/ TakeScreenshot
    \/ GetNextAction
    \/ RecordStep
    \/ Dispatch
    \/ CaptchaSolved
    \/ ExploreWebsite
    \/ ExecuteAction
    \/ RecoveryScreenshot
    \/ GetRecoveryAction
    \/ RecoveryCheck
    \/ ExecuteRecovery
    \/ GenerateTaskSummary

Spec == Init /\ [][Next]_vars

\* Every call made by execute_task returns or raises, and the human answers the
\* captcha prompt: whatever step is enabled is eventually taken.
FairSpec == Spec /\ WF_vars(Next)

\* execute_action alone: one call, with whatever proposal and whatever the
\* Browser Driver does.
ExecSpec == Init /\ [][ExecNext]_vars

\* execute_task with execute_action summarised by ExecuteOutcomes (lines 205 and
\* 218), beside execute_action itself (lines 449-496): a behaviour is one task
\* or one call of execute_action, so that a property can state what the loop
\* does with a result together with how the executor produces that result.
TaskOrExecNext ==
    \/ ex_pc = "idle" /\ Next
    \/ pc = "idle" /\ ExecNext

TaskOrExecSpec == Init /\ [][TaskOrExecNext]_vars

\* find_element_by_locator alone: two calls with the same arguments.
FindSpec == Init /\ [][FindNext]_vars

\* explore_website alone: the EXPLORE_WEBSITE steps of a session, on whatever
\* pages the Browser Driver shows.
CrawlSpec == Init /\ [][CrawlNext]_vars

\* Every Browser Driver call of the crawl returns, and the call goes on.
CrawlFairSpec == CrawlSpec /\ WF_vars(CrawlNext)

\* One call of explore_website(url, max_depth) on an assistant that has not
\* crawled yet.
ExploreSpec == Init /\ [][ExploreNext]_vars

-----------------------------------------------------------------------------
(* run_assistant: one task after another on the same assistant *)

\* The session goes on to a further task only while the history is this short.
MaxHistory == 2

\* run_assistant, lines 1012-1026: execute_task has returned, the next task is
\* read and execute_task is called again on the same object.  The locals of
\* the call that returned are gone; self.action_history,
\* self.captcha_solving_active and self.explored_urls stay.
NextTask ==
    /\ pc = "returned"
    /\ history_len <= MaxHistory
    /\ pc' = "idle"
    /\ current_step' = 0
    /\ retry_attempts' = 0
    /\ planner_reply' = "none"
    /\ next_action' = NoProposal
    /\ status' = "none"
    /\ recovery_reply' = "none"
    /\ recovery_action' = NoProposal
    /\ recovery_status' = "none"
    /\ initial_navigation' = FALSE
    /\ summary' = "none"
    /\ plannerCalls' = 0
    /\ recoveryCalls' = 0
    /\ dispatched' = <<>>
    /\ error_steps' = 0
    /\ successful_steps' = 0
    /\ first_driver_call' = "none"
    /\ UNCHANGED <<captcha_solving_active, history_len, history_last, history_errors,
                   history_successes, exc, raised_at, unitVars>>

SessionNext == Next \/ NextTask

SessionSpec == Init /\ [][SessionNext]_vars

-----------------------------------------------------------------------------
(* Positions *)

\* execute_task is over: it is generating the summary, has returned, or an
\* exception has left it.
LoopOver == pc \in {"summary", "returned", "raised"}

\* The loop was left by a break or by its condition (not by an exception).
LoopLeft == pc \in {"summary", "returned"} \/ (pc = "raised" /\ raised_at = "summary")

-----------------------------------------------------------------------------
(* C1 *)

\* C1: the step counter stays within 0..max_steps, and every next-action
\* request belongs to a started step, so at most max_steps requests are sent in
\* one task and no step starts once current_step = max_steps.
C1_StepBudget ==
    /\ current_step \in 0..max_steps
    /\ plannerCalls \in 0..max_steps
    /\ plannerCalls <= current_step
    /\ (pc \in {"screenshot", "planner"} => plannerCalls = current_step - 1)

\* The loop ran out of steps: step max_steps succeeded and the condition failed.
C1_Witness ==
    /\ pc = "summary"
    /\ current_step = max_steps
    /\ plannerCalls = max_steps
    /\ status = "SUCCESS"

-----------------------------------------------------------------------------
(* C2 *)

\* C2: a RETRY step adds exactly one to retry_attempts and hands nothing to
\* execute_action; the loop ends in that step when the new count exceeds
\* max_retry_attempts and goes to the next step otherwise; while the loop runs
\* retry_attempts is within 0..max_retry_attempts.
C2_RetryStep ==
    /\ [](~LoopOver => retry_attempts \in 0..max_retry_attempts)
    /\ [][(pc = "dispatch" /\ next_action.action = "RETRY") =>
            /\ retry_attempts' = retry_attempts + 1
            /\ dispatched' = <<>>
            /\ pc' = IF retry_attempts' > max_retry_attempts THEN "summary" ELSE "loop"]_vars

\* The retry budget ran out: the RETRY that made the count max_retry_attempts + 1
\* ended the loop.
C2_Witness ==
    /\ pc = "summary"
    /\ next_action.action = "RETRY"
    /\ retry_attempts = max_retry_attempts + 1
    /\ dispatched = <<>>

-----------------------------------------------------------------------------
(* C3 *)

\* C3: on every ERROR of the step's action exactly one recovery proposal is
\* requested; an ABORT ends the loop with nothing more executed; any other
\* recovery proposal is executed exactly once, its ERROR ends the loop with no
\* second request and its SUCCESS lets the loop go on.
C3_RecoveryProtocol ==
    /\ recoveryCalls <= 1
    /\ (status = "ERROR" /\ pc \notin {"recovery_screenshot", "recovery_plan"}
            => recoveryCalls = 1)
    /\ (recoveryCalls = 1 /\ pc # "recovery_check" /\ recovery_action.action = "ABORT"
            => LoopLeft /\ Len(dispatched) = 1)
    /\ (recoveryCalls = 1 /\ pc \notin {"recovery_check", "recovery_execute"}
                          /\ recovery_action.action # "ABORT"
            => Len(dispatched) = 2)
    /\ (recovery_status = "ERROR" => LoopLeft)
    /\ (recovery_status = "SUCCESS" => pc = "loop" \/ (LoopLeft /\ current_step = max_steps))

-----------------------------------------------------------------------------
(* C4 *)

\* C4: whenever the loop has stopped, the step's proposal was TASK_COMPLETE, a
\* RETRY pushed retry_attempts above max_retry_attempts, the recovery proposal
\* was ABORT, the recovery action returned ERROR, or current_step reached
\* max_steps.
C4_StopCauses ==
    LoopOver =>
        \/ next_action.action = "TASK_COMPLETE"
        \/ (next_action.action = "RETRY" /\ retry_attempts > max_retry_attempts)
        \/ recovery_action.action = "ABORT"
        \/ recovery_status = "ERROR"
        \/ current_step = max_steps

-----------------------------------------------------------------------------
(* C5 *)

\* C5: every run of execute_task in which no Planner call and no Browser Driver
\* call raises, and in which every captcha prompt is answered, eventually
\* returns.  (An ERROR of execute_action may stand for a driver call that
\* raised inside a primitive, so it counts as such a call.)
C5_Terminates ==
    <>(\/ pc = "returned"
       \/ exc = "DriverError"
       \/ planner_reply = "TRANSPORT"
       \/ recovery_reply = "TRANSPORT"
       \/ status = "ERROR"
       \/ recovery_status = "ERROR")

-----------------------------------------------------------------------------
(* C6 *)

\* C6: once the TASK_COMPLETE proposal of a step is recorded the loop ends in
\* that step: no further next-action request, nothing handed to execute_action,
\* and the task ends with its summary (no exception takes its place).
C6_TaskComplete ==
    (next_action.action = "TASK_COMPLETE" /\ pc # "record") =>
        /\ pc \in {"dispatch", "summary", "returned"}
        /\ dispatched = <<>>
        /\ plannerCalls = current_step
        /\ (pc = "returned" => summary = "produced")

-----------------------------------------------------------------------------
(* C7 *)

\* C7 as stated: no Planner decode or transport failure ends the loop, for the
\* next-action request (the loop can end in such a step only on the ERROR of the
\* synthesized wait or on the step budget) and for the recovery request alike.
C7_NeverFatal ==
    /\ (planner_reply \in PlannerFailures /\ LoopLeft
            => status = "ERROR" \/ current_step = max_steps)
    /\ (recovery_reply \in PlannerFailures => ~LoopLeft)

\* C7 as amended: a decode or transport failure of the next-action request is
\* not fatal (the step's proposal is a WAIT, which is recorded and executed, and
\* the loop can end in that step only on the ERROR of that wait or on the step
\* budget); a decode or transport
\* failure of the recovery request is fatal: the recovery proposal is ABORT, it
\* is not executed and the loop ends in that step.
C7_FatalOnlyInRecovery ==
    /\ (planner_reply \in PlannerFailures => next_action.action = "WAIT")
    /\ (planner_reply \in PlannerFailures /\ pc \notin {"record", "dispatch", "execute"}
            => history_last.action = "WAIT" /\ Len(dispatched) >= 1)
    /\ (planner_reply \in PlannerFailures /\ LoopLeft
            => status = "ERROR" \/ current_step = max_steps)
    /\ (recovery_reply \in PlannerFailures =>
            /\ recovery_action.action = "ABORT"
            /\ (pc = "recovery_check" \/ LoopLeft)
            /\ Len(dispatched) = 1)

\* A recovery request whose reply could not be decoded has ended the loop
\* before the step budget was used up.
C7_Witness ==
    /\ pc = "summary"
    /\ recovery_reply = "UNDECODABLE"
    /\ recovery_action.action = "ABORT"
    /\ current_step < max_steps

-----------------------------------------------------------------------------
(* C8 *)

\* C8: when the reply to the next-action request of step k cannot be decoded
\* the record of step k is a WAIT of 5 seconds, on a transport failure a WAIT of
\* 10 seconds; that WAIT is the first thing handed to execute_action in the
\* step, and when it succeeds with k < max_steps the loop starts step k+1.
C8_SynthesizedWait ==
    /\ [](planner_reply = "UNDECODABLE" /\ pc # "record"
            => history_last = [step |-> current_step, action |-> "WAIT",
                               details |-> Seconds(5)])
    /\ [](planner_reply = "TRANSPORT" /\ pc # "record"
            => history_last = [step |-> current_step, action |-> "WAIT",
                               details |-> Seconds(10)])
    /\ [](planner_reply \in PlannerFailures /\ pc \notin {"record", "dispatch", "execute"}
            => dispatched # <<>> /\ dispatched[1] = "WAIT")
    /\ [][(planner_reply \in PlannerFailures /\ pc = "execute" /\ status' = "SUCCESS")
            => pc' = "loop"]_vars
    /\ [][(planner_reply \in PlannerFailures /\ pc = "loop" /\ status = "SUCCESS"
                                             /\ current_step < max_steps)
            => pc' = "screenshot" /\ current_step' = current_step + 1]_vars

\* The reply of step 3 could not be decoded, the WAIT of 5 seconds is recorded
\* and has succeeded, and the loop is about to start step 4.
C8_Witness ==
    /\ pc = "loop"
    /\ current_step = 3
    /\ planner_reply = "UNDECODABLE"
    /\ history_last = [step |-> 3, action |-> "WAIT", details |-> Seconds(5)]
    /\ dispatched = <<"WAIT">>
    /\ status = "SUCCESS"

-----------------------------------------------------------------------------
(* C9 *)

\* C9: no reply of the Planner makes execute_task raise: an exception can leave
\* it only when a Browser Driver call faults.
C9_NoCrashOnPlannerOutput == pc = "raised" => exc = "DriverError"

-----------------------------------------------------------------------------
(* C10 *)

\* C10: no fault of a Browser Driver call leaves execute_task as an exception:
\* the task ends with its summary and a normal return.
C10_NoCrashOnDriverFault == exc # "DriverError"

-----------------------------------------------------------------------------
(* C11 *)

\* C11: once the action of a step and its recovery action have both returned
\* ERROR the loop is over, and the Task Summary then emitted reports the steps
\* whose action returned ERROR: at least one (this step), and when this step is
\* the first of the task exactly one, with no successful step.
C11_SummaryCounts ==
    /\ (status = "ERROR" /\ recovery_status = "ERROR" => LoopOver)
    /\ (pc = "returned" /\ status = "ERROR" /\ recovery_status = "ERROR" =>
          /\ error_steps >= 1
          /\ (current_step = 1 => error_steps = 1 /\ successful_steps = 0))

-----------------------------------------------------------------------------
(* C12 *)

\* C12 as stated: when the loop resumes after a MANUAL_CAPTCHA step,
\* current_step is what it was before that step started (one less than the
\* step number of the step's record), and captcha_solving_active is set
\* exactly while the loop waits for the human.
C12_NoStepCost ==
    /\ (pc = "loop" /\ history_last.action = "MANUAL_CAPTCHA" =>
          current_step = history_last.step - 1)
    /\ (captcha_solving_active <=> pc = "captcha")

\* C12, amended: a MANUAL_CAPTCHA step costs one step like every other step
\* (the loop resumes with current_step at the step number of the captcha step,
\* neither the dispatch nor the resumption changes it), it costs no retry
\* (retry_attempts is left as it is), and captcha_solving_active is set exactly
\* while the loop waits for the human.
C12_CaptchaCostsAStep ==
    /\ [](/\ (pc \in {"captcha", "loop"} /\ history_last.action = "MANUAL_CAPTCHA" =>
                current_step = history_last.step /\ current_step \in 1..max_steps)
          /\ (captcha_solving_active <=> pc = "captcha"))
    /\ [][pc = "captcha" =>
            /\ pc' = "loop"
            /\ current_step' = current_step
            /\ retry_attempts' = retry_attempts]_vars
    /\ [][pc = "dispatch" /\ next_action.action = "MANUAL_CAPTCHA" =>
            /\ pc' = "captcha"
            /\ current_step' = current_step
            /\ retry_attempts' = retry_attempts]_vars

\* The loop has resumed after a captcha step that used up the last step of the
\* budget, with a retry count that the step left standing.
C12_Witness ==
    /\ pc = "loop"
    /\ history_last.action = "MANUAL_CAPTCHA"
    /\ current_step = max_steps
    /\ retry_attempts = 2
    /\ ~captcha_solving_active

-----------------------------------------------------------------------------
(* C13 *)

\* C13: the step that starts a task navigates to the default start page
\* exactly when the history is empty or its last record is a TASK_COMPLETE;
\* when it does, that navigation is the first Browser Driver call of the task
\* (always so for an empty history), and when it does not, the first driver
\* call of the task is the screenshot of its first step, on the current page.
C13_InitialNavigation ==
    /\ [][pc = "idle" =>
            /\ pc' = "loop"
            /\ initial_navigation' =
                   (history_len = 0 \/ history_last.action = "TASK_COMPLETE")
            /\ first_driver_call' = IF initial_navigation' THEN "page.goto" ELSE "none"
            /\ history_len' = history_len]_vars
    /\ [](pc # "idle" =>
            /\ (initial_navigation => first_driver_call = "page.goto")
            /\ (~initial_navigation => first_driver_call \in {"none", "page.screenshot"})
            /\ (history_len = 0 => initial_navigation)
            /\ (first_driver_call = "none" => pc \in {"loop", "screenshot"} /\ current_step <= 1))
    /\ [][first_driver_call # "none" /\ pc # "returned" =>
            first_driver_call' = first_driver_call]_vars

\* A task that started on a history of two records ending in a CLICK is at its
\* first Planner request: no initial navigation, the first driver call was the
\* screenshot of step 1.
C13_Witness ==
    /\ pc = "planner"
    /\ current_step = 1
    /\ history_len = 2
    /\ history_last.action = "CLICK"
    /\ ~initial_navigation
    /\ first_driver_call = "page.screenshot"

-----------------------------------------------------------------------------
(* C14 *)

\* C14: whenever execute_action has run on a recovery proposal, the kind of
\* that proposal is one of CLICK, TYPE, NAVIGATE, SCROLL, WAIT, ABORT, RETRY.
C14_RecoveryKinds ==
    recovery_status # "none" => Upper(recovery_action.action) \in RecoveryKinds

-----------------------------------------------------------------------------
(* C15 *)

-----------------------------------------------------------------------------
(* C16 *)

\* The positions in driver_calls of the calls of element_locator.click().
Clicks == {i \in 1..Len(driver_calls) : driver_calls[i].call = "click"}

\* C16: a CLICK whose resolution gave None returns ERROR 'Element not found
\* for click' with no click at all; a CLICK whose resolution gave an element
\* has, when it returns, called click() exactly once, on that element; and no
\* click happens while the resolver is still searching.
C16_Click ==
    /\ (ex_pc = "done" /\ find_args.caller = "click_element" =>
          IF element_locator = None
          THEN /\ result = ActionResult("ERROR", "Element not found for click")
               /\ driver_calls = <<>>
          ELSE /\ Cardinality(Clicks) = 1
               /\ \A i \in Clicks : driver_calls[i].on = element_locator)
    /\ (ex_pc = "find" => Clicks = {})
    /\ Cardinality(Clicks) <= 1

\* A CLICK with a locator expression and no fallback text, on a page where the
\* expression matched nothing for the whole search time: ERROR, no driver
\* call besides the probes.
C16_Witness ==
    /\ ex_pc = "done"
    /\ ex_action_data = Proposal("CLICK", {<<"locator", "#go">>})
    /\ element_locator = None
    /\ elapsed = element_search_timeout
    /\ result = ActionResult("ERROR", "Element not found for click")
    /\ driver_calls = <<>>

-----------------------------------------------------------------------------
(* C17 *)

\* execute_action has returned from a TYPE whose "details" is an object.
TypeDone ==
    /\ ex_pc = "done"
    /\ Upper(ex_action_data.action) = "TYPE"
    /\ ex_action_data.details # NonObjectDetails

\* The positions in driver_calls of the calls that type: fill and keyboard.type.
Typings == {i \in 1..Len(driver_calls) : driver_calls[i].call \in {"fill", "keyboard.type"}}

NoFault == \A i \in 1..Len(driver_calls) : ~driver_calls[i].fault

\* TYPE with an empty text returns ERROR 'No text provided to type' before any
\* Browser Driver call, probes of the resolver included.
EmptyTextRefused ==
    TypeDone /\ Get(ex_action_data.details, "text", "") = "" =>
        /\ result = ActionResult("ERROR", "No text provided to type")
        /\ driver_calls = <<>>
        /\ find_args = NoArgs

\* C17 as stated: TYPE with an empty text is refused before any driver call,
\* and a TYPE with a text whose locator did not resolve (or that has none),
\* and during which no driver call raised, has typed into the focused element
\* and returned SUCCESS.
C17_FocusFallback ==
    /\ EmptyTextRefused
    /\ (/\ TypeDone
        /\ Get(ex_action_data.details, "text", "") # ""
        /\ element_locator.by # "locator"
        /\ NoFault
        => /\ result.status = "SUCCESS"
           /\ \E i \in Typings : driver_calls[i] = DriverCall("keyboard.type", Focused, FALSE))

\* C17, amended: TYPE with an empty text is refused before any driver call.
\* With a text, a locator that does not resolve (or none) makes TYPE probe its
\* input selectors: it fills the first match of the first selector that
\* matches, and types into the focused element only when none matches.  It
\* types at most once, returns SUCCESS when no driver call raised, and its only
\* ERROR is that of a driver fault, never an element that was not found.
C17_TypeFallbacks ==
    /\ EmptyTextRefused
    /\ (TypeDone /\ Get(ex_action_data.details, "text", "") # "" =>
          /\ Cardinality(Typings) <= 1
          /\ (NoFault => result.status = "SUCCESS" /\ Cardinality(Typings) = 1)
          /\ (result.status = "ERROR" => result.message = FaultMessage /\ ~NoFault)
          /\ (\A i \in Typings :
                 /\ driver_calls[i].call =
                       IF element_locator = None THEN "keyboard.type" ELSE "fill"
                 /\ driver_calls[i].on =
                       IF element_locator = None THEN Focused ELSE element_locator)
          /\ element_locator.by \in {"locator", "input", "None"}
          /\ (element_locator.by = "locator" =>
                 /\ find_args.locator_str # ""
                 /\ \A i \in 1..Len(driver_calls) : driver_calls[i].call # "count")
          /\ (element_locator.by # "locator" =>
                 /\ (find_args.locator_str # "" => elapsed >= element_search_timeout)
                 /\ \E i \in 1..Len(driver_calls) : driver_calls[i].call = "count"))

\* A TYPE whose locator did not resolve within the search time and that filled
\* the first textarea of the page instead, with SUCCESS.
C17_Witness ==
    /\ ex_pc = "done"
    /\ ex_action_data = Proposal("TYPE", {<<"locator", "#go">>, <<"text", "Go">>})
    /\ elapsed = element_search_timeout
    /\ element_locator = Element("input", 2, 0)
    /\ driver_calls = << DriverCall("count", Page, FALSE),
                         DriverCall("fill", Element("input", 2, 0), FALSE) >>
    /\ result = ActionResult("SUCCESS", "Typed into input field")

-----------------------------------------------------------------------------
(* C18 *)

\* C18: explore_website navigates successfully to a URL at most once (within
\* one crawl, and in fact within the session), the explored URLs are exactly
\* those navigations, and a call on a URL that is already explored returns at
\* line 501: no driver call, nothing marked, nothing stored.
C18_NoRevisit ==
    /\ [](/\ \A i, j \in 1..Len(visits) : visits[i].url = visits[j].url => i = j
          /\ explored_urls = {visits[i].url : i \in 1..Len(visits)})
    /\ [][crawl_stack # <<>> /\ Top.at = "enter" /\ Top.url \in explored_urls =>
            /\ crawl_stack' = SubSeq(crawl_stack, 1, Len(crawl_stack) - 1)
            /\ last_return'.line = 501
            /\ UNCHANGED <<explored_urls, memory, visits>>]_vars

\* The second crawl of the session was started on the root page of the first
\* one, which had explored that page and one more: the call returned at line
\* 501.
C18_Witness ==
    /\ crawls = 2
    /\ crawl_stack = <<>>
    /\ last_return = [url |-> SiteRoot, current_depth |-> 0, line |-> 501]
    /\ Len(visits) = 2
    /\ visits[1] = [url |-> SiteRoot, current_depth |-> 0]

-----------------------------------------------------------------------------
(* C19 *)

\* C19: a call whose depth has reached exploration_depth returns at line 501
\* without navigating, marking or storing; so every successful navigation is
\* at depth 0 or 1: that of the root URL of the crawl, or that of a URL which
\* an anchor of the root page gave; and memory holds explored pages only.
C19_DepthBound ==
    /\ [](/\ \A i \in 1..Len(visits) : visits[i].current_depth < exploration_depth
          /\ \A k \in 1..Len(crawl_stack) :
                /\ crawl_stack[k].current_depth = k - 1
                /\ (k - 1 >= exploration_depth => crawl_stack[k].at = "enter")
          /\ \A m \in memory : m.page \in explored_urls)
    /\ [][crawl_stack # <<>> /\ Top.at = "enter" /\ Top.current_depth >= exploration_depth =>
            /\ crawl_stack' = SubSeq(crawl_stack, 1, Len(crawl_stack) - 1)
            /\ last_return'.line = 501
            /\ UNCHANGED <<explored_urls, memory, visits>>]_vars
    /\ [][visits' # visits =>
            /\ visits' = Append(visits, [url |-> Top.url,
                                         current_depth |-> Top.current_depth])
            /\ \/ Top.current_depth = 0 /\ Len(crawl_stack) = 1
               \/ Top.current_depth = 1 /\ Top.url \in crawl_stack[1].links]_vars

\* A call at depth 2, on a URL that an anchor of a depth-1 page gave and that
\* is not explored, has returned at line 501; the crawl is back in the depth-1
\* call.
C19_Witness ==
    /\ Len(crawl_stack) = 2
    /\ Top.at = "recurse"
    /\ last_return.line = 501
    /\ last_return.current_depth = exploration_depth
    /\ last_return.url \notin explored_urls
    /\ last_return.url \in Top.links

-----------------------------------------------------------------------------
(* C20 *)

\* C20: a crawl that has started comes to its end, and the calls never nest
\* deeper than exploration_depth below the top-level call.
C20_CrawlTerminates ==
    /\ [](Len(crawl_stack) <= exploration_depth + 1)
    /\ (crawl_stack # <<>>) ~> (crawl_stack = <<>>)

\* A crawl on a cyclic site: the root page links to /q, /q links back to the
\* root page and to itself, and the call on /q has nothing left to explore.
C20_Witness ==
    /\ Len(crawl_stack) = 2
    /\ crawl_stack[1].url = SiteRoot
    /\ Top.url = Url("https", "a.example", "/q")
    /\ Top.url \in crawl_stack[1].links
    /\ {SiteRoot, Top.url} \subseteq Top.links
    /\ Top.at = "recurse"
    /\ Top.urls_to_explore = {}

-----------------------------------------------------------------------------
(* C26 *)

\* The kinds of proposal that line 180-203 do not hand to execute_action.
LoopKinds == {"TASK_COMPLETE", "MANUAL_CAPTCHA", "EXPLORE_WEBSITE", "RETRY"}

\* C26: within a task retry_attempts changes only in the dispatch on the
\* step's proposal: a RETRY adds one, a proposal that goes on to
\* execute_action (the synthesized wait included) makes it 0; every other
\* step of the loop, the captcha, the crawl and the whole recovery included,
\* leaves it as it is; and the loop ends on retries only with
\* max_retry_attempts + 1 RETRY steps counted.
C26_RetryCount ==
    /\ [][retry_attempts' # retry_attempts =>
            /\ pc = "dispatch"
            /\ \/ next_action.action = "RETRY" /\ retry_attempts' = retry_attempts + 1
               \/ /\ next_action.action \notin LoopKinds
                  /\ retry_attempts' = 0
                  /\ pc' = "execute"]_vars
    /\ [][pc = "dispatch" /\ pc' = "execute" =>
            next_action.action \notin LoopKinds /\ retry_attempts' = 0]_vars
    /\ [][pc = "dispatch" /\ next_action.action \in LoopKinds \ {"RETRY"} =>
            UNCHANGED retry_attempts]_vars
    /\ [][pc = "dispatch" /\ next_action.action = "RETRY" /\ pc' = "summary" =>
            retry_attempts' = max_retry_attempts + 1]_vars

\* Three RETRY steps and then an EXPLORE_WEBSITE step, which is over: the
\* count is still 3.
C26_Witness ==
    /\ pc = "loop"
    /\ history_last.action = "EXPLORE_WEBSITE"
    /\ current_step = max_retry_attempts + 1
    /\ retry_attempts = max_retry_attempts

-----------------------------------------------------------------------------
(* C24 *)

\* C24: self.action_history only grows, one record at a time at line 173, and
\* in a running or finished task it holds records of that task only: at most
\* one for each step the task has started, and none when the task starts.
C24_HistoryPerTask ==
    /\ [][history_len' # history_len =>
            pc = "record" /\ history_len' = history_len + 1]_vars
    /\ [](pc # "idle" => history_len <= current_step)

-----------------------------------------------------------------------------
(* C22 *)

\* C22: a top-level call of explore_website starts with no URL explored, so
\* it never returns at line 501: it goes on to navigate to its root URL,
\* whatever earlier crawls of the session explored.
C22_VisitedPerCrawl ==
    /\ [](Len(crawl_stack) = 1 /\ Top.at = "enter" => explored_urls = {})
    /\ [][Len(crawl_stack) = 1 /\ Top.at = "enter" =>
            Len(crawl_stack') = 1 /\ crawl_stack'[1].at = "navigate"]_vars

-----------------------------------------------------------------------------
(* C23 *)

\* C23: when navigate_to_url gives ERROR the call returns at line 508 to its
\* caller, with nothing marked explored and nothing stored; the callers are
\* as they were, and a call that is in its last loop (line 544) changes only
\* by calling explore_website on one of the URLs it has left, or by returning
\* when it has none left.
C23_NavigationError ==
    /\ [][crawl_stack # <<>> /\ Top.at = "navigate" /\ visits' = visits =>
            /\ crawl_stack' = SubSeq(crawl_stack, 1, Len(crawl_stack) - 1)
            /\ last_return'.line = 508
            /\ UNCHANGED <<explored_urls, memory, visits>>]_vars
    /\ [][\A k \in 1..Len(crawl_stack) :
            (crawl_stack[k].at = "recurse" /\
                 (k > Len(crawl_stack') \/ crawl_stack'[k] # crawl_stack[k])) =>
               /\ k = Len(crawl_stack)
               /\ IF Top.urls_to_explore = {}
                  THEN crawl_stack' = SubSeq(crawl_stack, 1, k - 1)
                  ELSE \E next_url \in Top.urls_to_explore :
                         /\ Len(crawl_stack') = k + 1
                         /\ crawl_stack'[k + 1] = Frame(next_url, k)
                         /\ crawl_stack'[k].urls_to_explore =
                               Top.urls_to_explore \ {next_url}]_vars

\* The root page gave two links; the call on one of them ended on a
\* navigation error, and the call on the other has navigated.
C23_Witness ==
    /\ Len(crawl_stack) = 2
    /\ last_return.line = 508
    /\ last_return.current_depth = 1
    /\ last_return.url \in crawl_stack[1].links
    /\ last_return.url \notin explored_urls
    /\ Top.url # last_return.url
    /\ Top.at = "screenshot"

-----------------------------------------------------------------------------
(* C21 *)

-----------------------------------------------------------------------------
(* C30 *)

\* execute_action has returned from a NAVIGATE whose "details" is an object.
NavigateDone ==
    /\ ex_pc = "done"
    /\ Upper(ex_action_data.action) = "NAVIGATE"
    /\ ex_action_data.details # NonObjectDetails

\* The positions in driver_calls of the runs of handle_dialogs.
DialogRuns == {i \in 1..Len(driver_calls) : driver_calls[i].call = "handle_dialogs"}

\* C30: NAVIGATE with an empty URL (or none) returns ERROR 'No URL provided'
\* with no driver call.  Otherwise its first driver call is page.goto, with
\* the URL as given when that starts with http:// or https:// and with
\* https:// put before it when it does not; handle_dialogs runs once, right
\* after a page.goto that returned, and not at all after one that raised.
C30_Navigate ==
    NavigateDone =>
        LET url == Get(ex_action_data.details, "url", "")
        IN  IF url = ""
            THEN result = ActionResult("ERROR", "No URL provided") /\ driver_calls = <<>>
            ELSE /\ driver_calls # <<>>
                 /\ driver_calls[1].call = "goto"
                 /\ driver_calls[1].on =
                       Address(IF StartsWith(url, "http://") \/ StartsWith(url, "https://")
                               THEN url ELSE Https(url))
                 /\ \A i \in 2..Len(driver_calls) : driver_calls[i].call # "goto"
                 /\ DialogRuns = IF driver_calls[1].fault THEN {} ELSE {2}
                 /\ (driver_calls[1].fault => result = ActionResult("ERROR", FaultMessage))

\* NAVIGATE to "example.org": page.goto was called with https://example.org,
\* handle_dialogs ran once after it, and the result is SUCCESS.
C30_Witness ==
    /\ NavigateDone
    /\ ~debug
    /\ Get(ex_action_data.details, "url", "") = "example.org"
    /\ driver_calls = << DriverCall("goto", Address("https://example.org"), FALSE),
                         DriverCall("handle_dialogs", Page, FALSE),
                         DriverCall("title", Page, FALSE) >>
    /\ result = ActionResult("SUCCESS", "Navigated")

-----------------------------------------------------------------------------
(* C27 *)

\* find_element_by_locator, called on its own, has returned.
FindReturned == ex_pc = "returned"

\* C27: find_element_by_locator returns None only when its search time is
\* over, and no iteration of a search that is still running has found an
\* element; when no iteration had a match on its page the call returns None;
\* an iteration in which a probe raised returns nothing and leaves the call
\* in its loop.
C27_NotFound ==
    /\ [][ex_pc = "find" /\ ex_pc' # "find" /\ element_locator' = None =>
            elapsed >= element_search_timeout]_vars
    /\ [](ex_pc = "find" => probes.last \in {"none", "fault", "None"})
    /\ [](FindReturned /\ ~probes.matched => element_locator = None)
    /\ [][ex_pc = "find" /\ probes' # probes /\ probes'.last = "fault" =>
            ex_pc' = "find" /\ UNCHANGED <<element_locator, result>>]_vars

\* A call with a locator expression on a page that never had a match for it,
\* with a probe that raised on the way: None, when the 10 units were over.
C27_Witness ==
    /\ FindReturned
    /\ find_args.locator_str # ""
    /\ element_locator = None
    /\ probes.faulted
    /\ ~probes.matched
    /\ elapsed = element_search_timeout

-----------------------------------------------------------------------------
(* C28 *)

\* The first text strategy that matches on the page is the k-th.
FirstStrategy(k) == page.text[k] > 0 /\ \A j \in 1..(k - 1) : page.text[j] = 0

\* C28 as stated: an element found by a text strategy is returned only by a
\* call without locator expression, and it is the first match-giving strategy
\* of the fixed order that gave it.
C28_TextOnlyWithoutLocator ==
    FindReturned /\ element_locator.by = "text" =>
        find_args.locator_str = "" /\ FirstStrategy(element_locator.strategy)

\* C28, amended: the text strategies are consulted in every iteration in
\* which a text is given and the locator expression is absent or matched
\* nothing.  An element of the locator expression is returned only when the
\* expression matched; an element of a text strategy only when the expression
\* is absent or matched nothing, and it is that of the first strategy that
\* matches; and an iteration without a fault finds nothing only when neither
\* the expression nor a strategy it was to consult matches.
C28_TextFallback ==
    /\ [](FindReturned /\ element_locator.by = "locator" =>
            find_args.locator_str # "" /\ page.locator > 0)
    /\ [](FindReturned /\ element_locator.by = "text" =>
            /\ find_args.text # ""
            /\ find_args.locator_str = "" \/ page.locator = 0
            /\ FirstStrategy(element_locator.strategy))
    /\ [][ex_pc = "find" /\ probes' # probes /\ probes'.last = "None" =>
            /\ find_args.locator_str = "" \/ page.locator = 0
            /\ find_args.text = "" \/ page.text = NoText]_vars

\* A call with a locator expression that matches nothing and a text that
\* elements of the page contain: the element comes from the fourth strategy.
C28_Witness ==
    /\ FindReturned
    /\ find_args.locator_str # ""
    /\ page = PageOf(0, ContainedText)
    /\ element_locator.by = "text"
    /\ element_locator.strategy = 4

-----------------------------------------------------------------------------
(* C29 *)

\* The matches of what gave the returned element.
WinningCount ==
    IF element_locator.by = "locator" THEN page.locator
    ELSE page.text[element_locator.strategy]

\* The page has something for the call to find.
Findable ==
    \/ find_args.locator_str # "" /\ page.locator > 0
    \/ find_args.text # "" /\ page.text # NoText

\* C29: two calls in a row with the same arguments, on a page that did not
\* change and with no probe raising, return the same element; a returned
\* element is the index-th match of what found it when 0 <= index < n, and
\* the first match otherwise; and whatever the index, such a call returns an
\* element when there is one to find.
C29_SameElement ==
    /\ (FindReturned /\ previous.called /\ previous.clean
           /\ ~probes.faulted /\ ~probes.changed => element_locator = previous.element)
    /\ (FindReturned /\ element_locator # None =>
           /\ WinningCount > 0
           /\ element_locator.nth =
                 IF 0 <= find_args.index /\ find_args.index < WinningCount
                 THEN find_args.index ELSE 0)
    /\ (FindReturned /\ ~probes.faulted /\ ~probes.changed /\ Findable =>
           element_locator # None)

\* Two calls with an index beyond the matches of the locator expression: both
\* returned its first match.
C29_Witness ==
    /\ FindReturned
    /\ previous = Previous(TRUE, Element("locator", 0, 0), TRUE)
    /\ ~probes.faulted /\ ~probes.changed
    /\ find_args.index = MaxMatches + 1
    /\ page.locator = MaxMatches
    /\ element_locator = Element("locator", 0, 0)

-----------------------------------------------------------------------------
(* C25 *)

\* execute_action has returned SUCCESS from an EXTRACT of type "text".
ExtractTextDone ==
    /\ ex_pc = "done"
    /\ Upper(ex_action_data.action) = "EXTRACT"
    /\ ex_action_data.details # NonObjectDetails
    /\ Get(ex_action_data.details, "type", "text") = "text"
    /\ result.status = "SUCCESS"

\* C25: the text of a successful EXTRACT of type "text" has at most 2003
\* characters: it is the source text when that has at most 2000 characters,
\* and otherwise the first 2000 characters of the source followed by "...".
C25_ExtractLength ==
    ExtractTextDone =>
        /\ data.given
        /\ Length(data.text) <= 2003
        /\ data.text = IF data.text.source <= 2000
                       THEN Text(data.text.source, data.text.source, FALSE)
                       ELSE Text(data.text.source, 2000, TRUE)

\* The text of a source of 2004 characters: 2000 of them and the marker.
C25_Witness ==
    /\ ExtractTextDone
    /\ data.text = Text(TextLimit + MaxOver, TextLimit, TRUE)
    /\ Length(data.text) = 2003

(***************************************************************************)
(* C33                                                                     *)
(***************************************************************************)

\* execute_action acknowledges a proposal of the given kind: SUCCESS "Action
\* acknowledged" (lines 489-490) with no Browser Driver call, and the outcome
\* the loop takes for it is the status execute_action returns.
Acknowledged(kind) ==
    /\ ex_pc = "done" /\ Upper(ex_action_data.action) = kind
         => /\ result = ActionResult("SUCCESS", "Action acknowledged")
            /\ driver_calls = <<>>
    /\ ex_pc = "done" => result.status \in ExecuteOutcomes(ex_action_data)

\* C33: an ABORT proposed for a regular step does not end the loop.  The
\* dispatch of lines 180-203 sends it to execute_action with retry_attempts
\* reset to 0; execute_action acknowledges it with SUCCESS and calls nothing
\* of the Browser Driver; the loop goes back to its test with no recovery,
\* and takes the next step when the step budget allows one.  An ABORT given
\* as recovery proposal ends the task: no execute_action call, the summary.
C33_RegularAbort ==
    [][/\ (pc = "dispatch" /\ next_action.action = "ABORT"
              => /\ pc' = "execute"
                 /\ retry_attempts' = 0
                 /\ dispatched' = <<>>)
       /\ (pc = "execute" /\ next_action.action = "ABORT"
              => /\ status' = "SUCCESS"
                 /\ dispatched' = <<"ABORT">>
                 /\ retry_attempts' = 0
                 /\ first_driver_call' = first_driver_call
                 /\ pc' = "loop")
       /\ (pc = "loop" /\ history_last.action = "ABORT" /\ status = "SUCCESS"
              => pc' = IF current_step < max_steps THEN "screenshot" ELSE "summary")
       /\ (pc = "recovery_check" /\ recovery_action.action = "ABORT"
              => pc' = "summary" /\ dispatched' = dispatched)
       /\ Acknowledged("ABORT")'
      ]_vars

\* A regular ABORT at step 1 was acknowledged and step 2 has begun.
C33_Witness ==
    /\ pc = "screenshot"
    /\ current_step = 2
    /\ history_len = 1
    /\ history_last.action = "ABORT"
    /\ retry_attempts = 0

(***************************************************************************)
(* C34                                                                     *)
(***************************************************************************)

C35_StepRecords ==
    /\ [](pc \notin {"screenshot", "planner", "record"} => history_len = current_step)
    /\ [][/\ (current_step' # current_step
                => pc = "loop" /\ current_step' = current_step + 1)
           /\ (history_len' # history_len
                => /\ pc = "record"
                   /\ history_len' = history_len + 1
                   /\ history_last' = StepRecord(current_step, next_action))
           /\ (pc = "record" /\ pc' = "dispatch" => history_len' = history_len + 1)
          ]_vars

(***************************************************************************)
(* C32                                                                     *)
(***************************************************************************)

\* The origin of a URL: its scheme with its host and port (the netloc that
\* line 537 compares).
Origin(url) == <<url.scheme, url.netloc>>

\* C32 as stated: every URL the crawl navigates to, at whatever depth, has
\* the origin of the URL the crawl was started with (the first navigation of
\* the crawl).
C32_SameOrigin ==
    \A i \in 1..Len(visits) : Origin(visits[i].url) = Origin(visits[1].url)

\* C32, amended: every URL the crawl navigates to, and every URL it calls
\* explore_website on, at whatever depth, has the netloc (host and port) of the
\* URL the crawl was started with and the scheme http or https; so a link to
\* another host, or one that is not http or https, is never followed.  The
\* scheme is not compared with that of the start URL.
C32_SameNetloc ==
    /\ \A i \in 2..Len(visits) :
          /\ visits[i].url.netloc = visits[1].url.netloc
          /\ visits[i].url.scheme \in {"http", "https"}
    /\ \A i \in 2..Len(crawl_stack) :
          /\ crawl_stack[i].url.netloc = crawl_stack[1].url.netloc
          /\ crawl_stack[i].url.scheme \in {"http", "https"}

\* The crawl started at SitePage is on a page of depth 2; the page of depth 1
\* had a link to another host and a mailto link, neither of which is in its
\* urls_to_explore.
C32_Witness ==
    /\ Len(crawl_stack) = 3
    /\ crawl_stack[1].url = SitePage
    /\ crawl_stack[3].at = "screenshot"
    /\ {OtherSite, MailLink} \subseteq crawl_stack[2].links
    /\ crawl_stack[2].urls_to_explore = {}
    /\ Len(visits) = 3

(***************************************************************************)
(* C31                                                                     *)
(***************************************************************************)

\* The iterations of handle_dialogs whose click returned: the dismissals.
Dismissals == {i \in 1..Len(dialog_calls) : dialog_calls[i].met = "visible"}

\* C31: one call of handle_dialogs dismisses at most once.  The selectors are
\* probed in their order from the first; the first one with a visible match
\* whose click returns is the last one probed; a selector with no match, a
\* hidden match, a fault of the probe or a fault of the click is passed over
\* and the next one is probed, to the end of the list when nothing is
\* dismissed.  No fault of handle_dialogs reaches navigate_to_url: a NAVIGATE
\* whose own driver calls (goto, debug screenshot, title) do not fault
\* returns SUCCESS, and handle_dialogs adds no driver call of NAVIGATE.
C31_DismissOne ==
    /\ Cardinality(Dismissals) <= 1
    /\ \A i \in 1..Len(dialog_calls) : dialog_calls[i].selector = i
    /\ \A i \in Dismissals : i = Len(dialog_calls)
    /\ DialogRuns = {} => dialog_calls = <<>>
    /\ DialogRuns # {} /\ Dismissals = {} => Len(dialog_calls) = MaxSelectors
    /\ (/\ ex_pc = "done"
        /\ DialogRuns # {}
        /\ \A i \in 1..Len(driver_calls) : ~driver_calls[i].fault
        => result = ActionResult("SUCCESS", "Navigated"))
    /\ (ex_pc = "done" /\ DialogRuns # {} /\ result.status = "ERROR"
        => driver_calls[Len(driver_calls)].fault)

\* A NAVIGATE has returned SUCCESS after a handle_dialogs in which the probe
\* of the first selector faulted, the click on the second one faulted, and
\* the third one was clicked.
C31_Witness ==
    /\ ex_pc = "done"
    /\ Upper(ex_action_data.action) = "NAVIGATE"
    /\ result.status = "SUCCESS"
    /\ dialog_calls = << DialogProbe(1, "probe_fault"), DialogProbe(2, "click_fault"),
                         DialogProbe(3, "visible") >>

====
